---------------------------- MODULE Spec2Model ----------------------------
(***************************************************************************)
(* Model of the fraud-assistant agent (app/services/agent.py) together     *)
(* with the parts of the hybrid retriever (app/services/retrieval.py) and  *)
(* of the validators (app/utils/validators.py) that one chat request runs  *)
(* through.                                                                *)
(*                                                                         *)
(* Texts are sequences of words taken from small vocabularies; a regular   *)
(* expression or a keyword list of the source is modelled by the words of  *)
(* the vocabulary it matches.  Scores are integers in thousandths          *)
(* (0.12 is 120, a weight of 0.7 is 700).                                  *)
(***************************************************************************)
EXTENDS Integers, Sequences, FiniteSets, TLC

\* ------------------------------------------------------------------ bounds
\* Longest user message, in words.
MaxMsgLen == 2
\* Most claimed citations in one model payload.
MaxCitations == 2

\* --------------------------------------------------------------- constants
\* FraudAssistantAgent.MIN_PASSAGE_SCORE = 0.12
MIN_PASSAGE_SCORE == 120
\* stop_after_attempt(3) on _call_ollama
MaxTransportAttempts == 3
\* settings.hybrid_semantic_weight = 0.7
SemanticWeight == 700
\* settings.top_k_semantic, settings.top_k_bm25
TopKSemantic == 5
TopKBm25 == 3
\* +0.5 on an exact page_or_section match in _best_passage_match
LocationBoost == 500
\* the auto-attach slice [:2] and the refusal slice passages[:2]
TopAttach == 2

\* Optional[...] values are sequences of length at most 1: None is <<>>,
\* a present value v is <<v>>.
None == <<>>

Some(v) == <<v>>

\* ------------------------------------------------------------ small helpers
Min(a, b) == IF a <= b THEN a ELSE b

Range(s) == {s[i] : i \in 1..Len(s)}

Take(s, n) == SubSeq(s, 1, Min(n, Len(s)))

SeqsUpTo(S, n) == UNION {[1..k -> S] : k \in 0..n}

RECURSIVE SelectSeqBy(_, _)
\* [x for x in s if keep[x]], keep given as the set of kept elements
SelectSeqBy(s, keep) ==
    IF s = <<>> THEN <<>>
    ELSE IF Head(s) \in keep THEN <<Head(s)>> \o SelectSeqBy(Tail(s), keep)
         ELSE SelectSeqBy(Tail(s), keep)

\* ------------------------------------------------------------ user messages
\* Words a user message is made of.  "4970123412341234" is a 16-digit PAN.
Words == {"carte", "numero", "cvv", "4970123412341234"}

\* A user message: its words and whether some gap between two words is a run
\* of several whitespace characters (tab, newline, spaces) rather than one
\* space.  ChatRequest.sanitize_message has already stripped control
\* characters and the outer whitespace.
UserMessages ==
    {m \in [words : SeqsUpTo(Words, MaxMsgLen) \ {<<>>}, wide : BOOLEAN] :
        m.wide => Len(m.words) >= 2}

\* re.sub(r'\s+', ' ', ...).strip() of check_for_injection: every whitespace
\* run becomes one space.
CollapseWhitespace(m) == [m EXCEPT !.wide = FALSE]

\* SENSITIVE_DATA_PATTERNS, on the words of the vocabulary:
\*   (card|carte)\s*(number|numero|...)  -> "carte" directly followed by "numero"
\*   (cvv|cvc|...)                       -> the word "cvv"
\* The other patterns match no word of the vocabulary.  \s* and \s+ match any
\* whitespace run, so the result does not depend on m.wide.
check_for_sensitive_data_request(m) ==
    \/ \E i \in 1..(Len(m.words) - 1) :
          m.words[i] = "carte" /\ m.words[i + 1] = "numero"
    \/ "cvv" \in Range(m.words)

\* INJECTION_PATTERNS match no word of the user vocabulary; the passage
\* vocabulary below has the words they match.
InjectionWords == {"[INST]"}

check_for_injection_suspicious(words) == Range(words) \cap InjectionWords # {}

\* the input handed on as received
ValidateKeepsRaw(m) == [sanitized |-> m, has_warnings |-> FALSE]

\* validate_user_input: (sanitized_message, has_warnings)
validate_user_input(m) ==
    [sanitized |-> CollapseWhitespace(m),
     has_warnings |-> check_for_injection_suspicious(m.words)
                        \/ check_for_sensitive_data_request(m)]

\* _contains_sensitive_data: \b\d{12,19}\b or one of the keywords
\* cvv, cvc, cryptogramme, pin, otp, code sms, mot de passe, password.
SensitiveKeywords == {"cvv", "cvc", "cryptogramme", "pin", "otp", "password"}

_contains_sensitive_data(m) ==
    IF m.words = <<>> THEN FALSE
    ELSE \/ "4970123412341234" \in Range(m.words)
         \/ Range(m.words) \cap SensitiveKeywords # {}

\* _looks_off_topic: no fraud keyword in the text.
FraudKeywords == {"fraude", "arnaque", "phishing", "paiement", "transaction",
                  "carte", "cb", "opposition", "contestation", "remboursement",
                  "virement", "iban", "prelevement", "sepa", "vol", "perte"}

_looks_off_topic(m) ==
    IF m.words = <<>> THEN FALSE
    ELSE Range(m.words) \cap FraudKeywords = {}


\* ------------------------------------------------------ corpus and passages
\* Control character (class [\x00-\x08\x0b\x0c\x0e-\x1f\x7f]) standing alone
\* between two words of a chunk.
CTRL == "\\x07"

\* The chunks an index may hold (DocumentChunk; title, source_path and
\* offsets are carried along unchanged by the source and left out here).
ChunkA == [chunk_id |-> "c1", doc_id |-> "d1", page_or_section |-> "p1",
           content |-> <<"opposition", CTRL, "carte">>]
ChunkB == [chunk_id |-> "c2", doc_id |-> "d2", page_or_section |-> "p2",
           content |-> <<"[INST]", "delai", "mois">>]
ChunkC == [chunk_id |-> "c3", doc_id |-> "d1", page_or_section |-> "p3",
           content |-> <<"virement", "iban", "mois">>]
\* a chunk in which a control character splits a delimiter token
SplitInst == "[IN\\x07ST]"
ChunkD == [chunk_id |-> "c4", doc_id |-> "d4", page_or_section |-> "p4",
           content |-> <<SplitInst, "frais">>]
Corpus == <<ChunkA, ChunkB>>

TrustLevels == {"trusted", "untrusted"}

\* check_for_injection + sanitize_rag_passage on a passage content: the
\* patterns are searched in the text as given, then control characters are
\* removed and whitespace collapsed.
RemoveControl(word) == IF word = SplitInst THEN "[INST]" ELSE word

sanitize_rag_passage(content) ==
    [sanitized_text |->
        LET kept == SelectSeqBy(content, Range(content) \ {CTRL})
        IN [k \in 1..Len(kept) |-> RemoveControl(kept[k])],
     trust_level |-> IF check_for_injection_suspicious(content)
                     THEN "untrusted" ELSE "trusted"]

\* RetrievedPassage built from a chunk.
Passage(chunk, score, method) ==
    [chunk_id |-> chunk.chunk_id, doc_id |-> chunk.doc_id,
     page_or_section |-> chunk.page_or_section, content |-> chunk.content,
     score |-> score, trust_level |-> "trusted", retrieval_method |-> method]

RECURSIVE InsertDesc(_, _)
\* p placed behind every element whose score is at least its own.
InsertDesc(p, sorted) ==
    IF sorted = <<>> THEN <<p>>
    ELSE IF Head(sorted).score >= p.score
         THEN <<Head(sorted)>> \o InsertDesc(p, Tail(sorted))
         ELSE <<p>> \o sorted

RECURSIVE SortByScoreDesc(_)
\* list.sort(key=score, reverse=True): stable, equal scores keep their order.
SortByScoreDesc(s) ==
    IF s = <<>> THEN <<>>
    ELSE InsertDesc(s[Len(s)], SortByScoreDesc(SubSeq(s, 1, Len(s) - 1)))

\* _search_semantic: the vector index answers with min(top_k, count) chunks,
\* nearest first; dist[i] is the cosine distance it reports for chunk i and
\* the score is 1 - distance.
_search_semantic(coll, dist, top_k) ==
    IF Len(coll) = 0 THEN <<>>
    ELSE Take(SortByScoreDesc(
                 [i \in 1..Len(coll) |->
                     Passage(coll[i], 1000 - dist[i], "semantic")]),
              Min(top_k, Len(coll)))

RECURSIVE ArgsortDesc(_, _)
\* np.argsort(scores)[::-1]: indices by descending score; the reversal puts
\* the later index first among equal scores.
ArgsortDesc(scores, todo) ==
    IF todo = {} THEN <<>>
    ELSE LET best == CHOOSE i \in todo :
                        \A j \in todo :
                            \/ scores[i] > scores[j]
                            \/ scores[i] = scores[j] /\ i >= j
         IN <<best>> \o ArgsortDesc(scores, todo \ {best})

\* _search_bm25: scores[i] is BM25Okapi.get_scores for corpus chunk i.
_search_bm25(bm25, scores, top_k) ==
    IF bm25 = None \/ bm25[1] = <<>> THEN <<>>
    ELSE LET chunks == bm25[1]
             top == Take(ArgsortDesc(scores, 1..Len(chunks)), top_k)
             pos == SelectSeqBy(top, {i \in 1..Len(chunks) : scores[i] > 0})
         IN [k \in 1..Len(pos) |->
                Passage(chunks[pos[k]], scores[pos[k]], "bm25")]

RECURSIVE MaxScore(_, _)
\* max((p.score for p in s), default=d)
MaxScore(s, d) ==
    IF s = <<>> THEN d
    ELSE LET m == MaxScore(Tail(s), Head(s).score)
         IN IF Head(s).score >= m THEN Head(s).score ELSE m

RECURSIVE AddSemantic(_, _)
\* first loop of retrieve: semantic results, weighted, first chunk_id wins
AddSemantic(results, merged) ==
    IF results = <<>> THEN merged
    ELSE LET p == Head(results)
         IN IF p.chunk_id \in {q.chunk_id : q \in Range(merged)}
            THEN AddSemantic(Tail(results), merged)
            ELSE AddSemantic(Tail(results),
                    Append(merged,
                        [p EXCEPT !.score = (p.score * SemanticWeight) \div 1000,
                                  !.retrieval_method = "hybrid"]))

RECURSIVE AddBm25Overwrites(_, _, _)
\* the lexical contribution put in place of the score already merged
AddBm25Overwrites(results, merged, max_bm25_score) ==
    IF results = <<>> THEN merged
    ELSE LET p == Head(results)
             normalized == IF max_bm25_score > 0
                           THEN (p.score * 1000) \div max_bm25_score ELSE 0
             weighted == (normalized * (1000 - SemanticWeight)) \div 1000
             hit == {i \in 1..Len(merged) : merged[i].chunk_id = p.chunk_id}
         IN IF hit # {}
            THEN LET i == CHOOSE k \in hit : \A l \in hit : k <= l
                 IN AddBm25Overwrites(Tail(results),
                        [merged EXCEPT ![i].score = weighted],
                        max_bm25_score)
            ELSE AddBm25Overwrites(Tail(results),
                    Append(merged, [p EXCEPT !.score = weighted,
                                             !.retrieval_method = "hybrid"]),
                    max_bm25_score)

RECURSIVE AddBm25(_, _, _)
\* second loop of retrieve: BM25 results, normalised by the maximum, added to
\* the passage already merged under the same chunk_id or appended
AddBm25(results, merged, max_bm25_score) ==
    IF results = <<>> THEN merged
    ELSE LET p == Head(results)
             normalized == IF max_bm25_score > 0
                           THEN (p.score * 1000) \div max_bm25_score ELSE 0
             weighted == (normalized * (1000 - SemanticWeight)) \div 1000
             hit == {i \in 1..Len(merged) : merged[i].chunk_id = p.chunk_id}
         IN IF hit # {}
            THEN LET i == CHOOSE k \in hit : \A l \in hit : k <= l
                 IN AddBm25(Tail(results),
                        [merged EXCEPT ![i].score = @ + weighted],
                        max_bm25_score)
            ELSE AddBm25(Tail(results),
                    Append(merged, [p EXCEPT !.score = weighted,
                                             !.retrieval_method = "hybrid"]),
                    max_bm25_score)

\* a trust scan that keeps the trusted passages only
ApplyTrustDropsUntrusted(merged) ==
    SelectSeqBy([i \in 1..Len(merged) |->
                    [merged[i] EXCEPT !.content =
                        sanitize_rag_passage(merged[i].content).sanitized_text]],
                {q \in {[merged[i] EXCEPT !.content =
                            sanitize_rag_passage(merged[i].content).sanitized_text] :
                         i \in 1..Len(merged)} :
                    ~check_for_injection_suspicious(q.content)})

\* the trust scan that ends retrieve: annotates, never drops
ApplyTrust(merged) ==
    [i \in 1..Len(merged) |->
        LET r == sanitize_rag_passage(merged[i].content)
        IN [merged[i] EXCEPT !.content = r.sanitized_text,
                             !.trust_level = r.trust_level]]

\* HybridRetriever.retrieve once both searches have answered; bm25 is the
\* lexical corpus after the lazy load.
retrieve_top_k(coll, bm25, dist, scores, top_k_semantic, top_k_bm25) ==
    LET semantic_results == _search_semantic(coll, dist, top_k_semantic)
        bm25_results == _search_bm25(bm25, scores, top_k_bm25)
        merged == AddBm25(bm25_results, AddSemantic(semantic_results, <<>>),
                          MaxScore(bm25_results, 1000))
    IN ApplyTrust(SortByScoreDesc(merged))

\* retrieve(query, session_id): top_k_semantic and top_k_bm25 default to the
\* settings
retrieve(coll, bm25, dist, scores) ==
    retrieve_top_k(coll, bm25, dist, scores, TopKSemantic, TopKBm25)

\* a lexical corpus rebuilt from the collection on every retrieve
LazyBm25Always(coll, bm25) == Some(coll)

\* lazy load at the head of retrieve: the lexical corpus is rebuilt from the
\* collection when it is missing and the collection holds chunks
LazyBm25(coll, bm25) ==
    IF bm25 = None /\ Len(coll) > 0 THEN Some(coll) ELSE bm25


\* ------------------------------------------------------------- model output
\* Words of a customer_message: the two stock apologies of
\* _STOCK_APOLOGY_PATTERNS and ordinary text.
JeSuisDesole == "Je suis desole pour ce que vous avez vecu,"
Desole == "Desole pour ce que vous avez vecu,"

\* _strip_stock_apology: each pattern is anchored at the start and applied
\* once, the first before the second.
_strip_stock_apology(text) ==
    IF text = <<>> THEN text
    ELSE LET out1 == IF text[1] = JeSuisDesole THEN Tail(text) ELSE text
         IN IF out1 # <<>> /\ out1[1] = Desole THEN Tail(out1) ELSE out1

\* str.strip() on the doc_id and page_or_section a citation claims.
Strip(str) ==
    CASE str = " d2 " -> "d2"
      [] str = " " -> ""
      [] OTHER -> str

\* re.findall(r"\b\w{3,}\b", ...): the words of at least 3 characters.
ShortWords == {"cb", "24"}

Tokens3(words) == Range(words) \ ShortWords

\* f"parsed_{i}" for the i-th claimed citation, i counted from 0
ParsedId(i) ==
    <<"parsed_0", "parsed_1", "parsed_2", "parsed_3", "parsed_4">>[i + 1]

\* f"unknown_{i}"
UnknownId(i) ==
    <<"unknown_0", "unknown_1", "unknown_2", "unknown_3", "unknown_4">>[i + 1]

\* composite score of one candidate in _best_passage_match
MatchScore(p, page, ex) ==
    p.score
    + (IF page # "" /\ Strip(p.page_or_section) = page THEN LocationBoost ELSE 0)
    + (IF Tokens3(ex) # {}
       THEN (1000 * Cardinality(Tokens3(ex) \cap Tokens3(p.content)))
                \div Cardinality(Tokens3(ex))
       ELSE 0)

RECURSIVE BestOfLast(_, _, _, _)
\* the loop with best replaced on an equal composite score too
BestOfLast(candidates, page, ex, best) ==
    IF candidates = <<>> THEN best
    ELSE LET p == Head(candidates)
             sc == MatchScore(p, page, ex)
         IN IF best = None \/ sc >= best[1].s
            THEN BestOfLast(Tail(candidates), page, ex,
                            Some([s |-> sc, p |-> p]))
            ELSE BestOfLast(Tail(candidates), page, ex, best)

RECURSIVE BestOf(_, _, _, _)
\* the loop of _best_passage_match: best is replaced only on a strictly
\* greater composite score
BestOf(candidates, page, ex, best) ==
    IF candidates = <<>> THEN best
    ELSE LET p == Head(candidates)
             sc == MatchScore(p, page, ex)
         IN IF best = None \/ sc > best[1].s
            THEN BestOf(Tail(candidates), page, ex, Some([s |-> sc, p |-> p]))
            ELSE BestOf(Tail(candidates), page, ex, best)

\* _best_passage_match: None, or the matched passage
_best_passage_match(passages, doc_id, page_or_section, excerpt) ==
    IF passages = <<>> THEN None
    ELSE LET same == SelectSeqBy(passages,
                        {p \in Range(passages) : p.doc_id = doc_id})
             candidates == IF doc_id # "" /\ same # <<>> THEN same ELSE passages
             best == BestOf(candidates, Strip(page_or_section), excerpt, None)
         IN IF best = None THEN None ELSE Some(best[1].p)

\* Citation (title, excerpt and source_path left out: copied, never tested)
CitationOf(p) ==
    [chunk_id |-> p.chunk_id, doc_id |-> p.doc_id,
     page_or_section |-> p.page_or_section, excerpt |-> p.content,
     score |-> p.score, trust_level |-> p.trust_level]

CitationKey(c) == <<c.chunk_id, c.doc_id, c.page_or_section>>

RECURSIVE DedupKeepsLast(_, _, _)
\* a deduplication in which a later citation takes the place of the earlier
\* one of the same key
DedupKeepsLast(citations, seen, out) ==
    IF citations = <<>> THEN out
    ELSE LET c == Head(citations)
         IN IF CitationKey(c) \in seen
            THEN DedupKeepsLast(Tail(citations), seen,
                    [k \in 1..Len(out) |->
                        IF CitationKey(out[k]) = CitationKey(c)
                        THEN c ELSE out[k]])
            ELSE DedupKeepsLast(Tail(citations), seen \cup {CitationKey(c)},
                                Append(out, c))

RECURSIVE DedupFrom(_, _, _)
DedupFrom(citations, seen, out) ==
    IF citations = <<>> THEN out
    ELSE LET c == Head(citations)
         IN IF CitationKey(c) \in seen
            THEN DedupFrom(Tail(citations), seen, out)
            ELSE DedupFrom(Tail(citations), seen \cup {CitationKey(c)},
                           Append(out, c))

\* _dedup_citations
_dedup_citations(citations) == DedupFrom(citations, {}, <<>>)

\* the binding with the claimed doc_id kept in the citation
BindCitationKeepsClaim(cit, i, passages) ==
    LET doc_id == Strip(cit.doc_id)
        passage == _best_passage_match(passages, doc_id,
                                       Strip(cit.page_or_section), cit.excerpt)
    IN IF passage # None
       THEN [CitationOf(passage[1]) EXCEPT
                !.doc_id = IF doc_id # "" THEN doc_id ELSE @,
                !.excerpt = IF cit.excerpt # <<>> THEN cit.excerpt ELSE @]
       ELSE [chunk_id |-> ParsedId(i),
             doc_id |-> IF doc_id # "" THEN doc_id ELSE UnknownId(i),
             page_or_section |-> "N/A", excerpt |-> cit.excerpt,
             score |-> 0, trust_level |-> "trusted"]

\* one iteration of the binding loop, for the i-th claimed citation (from 0)
BindCitation(cit, i, passages) ==
    LET doc_id == Strip(cit.doc_id)
        page_or_section == Strip(cit.page_or_section)
        passage == _best_passage_match(passages, doc_id, page_or_section,
                                       cit.excerpt)
    IN IF passage # None
       THEN [CitationOf(passage[1]) EXCEPT
                !.excerpt = IF cit.excerpt # <<>> THEN cit.excerpt ELSE @]
       ELSE [chunk_id |-> ParsedId(i),
             doc_id |-> IF doc_id # "" THEN doc_id ELSE UnknownId(i),
             page_or_section |-> IF page_or_section # ""
                                 THEN page_or_section ELSE "N/A",
             excerpt |-> cit.excerpt,
             score |-> 0, trust_level |-> "trusted"]

RECURSIVE BindAll(_, _, _)
\* the binding loop: entries that are not objects are skipped
BindAll(parsed_citations, i, passages) ==
    IF i >= Len(parsed_citations) THEN <<>>
    ELSE LET cit == parsed_citations[i + 1]
         IN IF cit.kind # "dict"
            THEN BindAll(parsed_citations, i + 1, passages)
            ELSE <<BindCitation(cit, i, passages)>>
                     \o BindAll(parsed_citations, i + 1, passages)

ClarifyingQuestion == "Pouvez-vous preciser le type d'operation et le canal ?"
DefaultMessage == "Pouvez-vous preciser votre situation ?"

\* Does _validate_and_build_response raise on this payload?  parsed.get on a
\* JSON value that is not an object, .strip() on a doc_id that is not a
\* string, AgentResponse(actions=...) on a value that is not a list.
ReconcileRaises(parsed) ==
    \/ parsed.kind # "object"
    \/ \E k \in 1..Len(parsed.citations) :
          parsed.citations[k].kind = "dict" /\ ~parsed.citations[k].doc_id_is_str
    \/ ~parsed.actions_is_list

\* the auto-attach without its [:2] limit
AttachAll(top) == top

\* the [:2] of the auto-attach
AttachLimit(top) == Take(top, TopAttach)

\* the enforcement with the customer_message forgotten
MustForceNotFoundActionsOnly(actions, customer_message, citations, info_not_found) ==
    actions # <<>> /\ citations = <<>> /\ ~info_not_found

\* "if (actions or customer_message) and not citations and not info_not_found"
MustForceNotFound(actions, customer_message, citations, info_not_found) ==
    (actions # <<>> \/ customer_message # <<>>)
        /\ citations = <<>> /\ ~info_not_found

\* _validate_and_build_response on a payload it does not raise on
_validate_and_build_response(parsed, passages) ==
    LET bound == _dedup_citations(BindAll(parsed.citations, 0, passages))
        customer_message == _strip_stock_apology(parsed.customer_message)
        actions == parsed.actions
        top == AttachLimit(SelectSeqBy(passages,
                  {p \in Range(passages) : p.score >= MIN_PASSAGE_SCORE}))
        citations ==
            IF actions # <<>> /\ bound = <<>> /\ passages # <<>>
            THEN _dedup_citations([k \in 1..Len(top) |-> CitationOf(top[k])])
            ELSE bound
        force == MustForceNotFound(actions, customer_message, citations,
                                   parsed.info_not_found)
    IN [customer_message |-> IF customer_message # <<>>
                             THEN customer_message ELSE <<DefaultMessage>>,
        actions |-> actions,
        missing_info_questions |->
            IF force /\ parsed.missing_info_questions = <<>>
            THEN <<ClarifyingQuestion>> ELSE parsed.missing_info_questions,
        citations |-> citations,
        risk_flags |-> parsed.risk_flags,
        raw_passages_used |-> Len(passages),
        info_not_found |-> parsed.info_not_found \/ force]


\* ----------------------------------------------------------------- payloads
\* A claimed citation of the payload: kind "dict" for a JSON object, "str"
\* for any other JSON value; doc_id_is_str is FALSE when doc_id is a number.
ClaimedCitation(kind, doc_id, is_str, page, excerpt) ==
    [kind |-> kind, doc_id |-> doc_id, doc_id_is_str |-> is_str,
     page_or_section |-> page, excerpt |-> excerpt]

CitD2 == ClaimedCitation("dict", " d2 ", TRUE, "", <<>>)
CitP1 == ClaimedCitation("dict", "", TRUE, "p1", <<"carte", "cb">>)
CitDX == ClaimedCitation("dict", "dX", TRUE, " ", <<"mois">>)
CitStr == ClaimedCitation("str", "", TRUE, "", <<>>)
CitBadDocId == ClaimedCitation("dict", "", FALSE, "", <<>>)

ClaimedCitations == {CitD2, CitP1, CitDX, CitStr, CitBadDocId}

CustomerMessages ==
    {<<>>, <<"txt">>, <<JeSuisDesole, Desole>>, <<Desole, JeSuisDesole>>}

\* A JSON value the model output decodes to.
JsonValue(kind, msg, actions, is_list, citations, missing, inf) ==
    [kind |-> kind, customer_message |-> msg, actions |-> actions,
     actions_is_list |-> is_list, citations |-> citations,
     missing_info_questions |-> missing, risk_flags |-> <<>>,
     info_not_found |-> inf]

JsonNull == JsonValue("null", <<>>, <<>>, TRUE, <<>>, <<>>, FALSE)
JsonArray == JsonValue("array", <<>>, <<>>, TRUE, <<>>, <<>>, FALSE)

\* JSON objects handed to the reconciler
Payloads ==
    {JsonValue("object", m, a, TRUE, c, q, inf) :
        m \in CustomerMessages,
        a \in {<<>>, <<"a1">>},
        c \in SeqsUpTo(ClaimedCitations, MaxCitations),
        q \in {<<>>, <<"q1">>},
        inf \in BOOLEAN}
    \cup {JsonValue("object", <<"txt">>, <<"a1">>, FALSE, <<>>, <<>>, FALSE)}

\* the objects a chat request is served with
ChatPayloads ==
    {pl \in Payloads :
        /\ pl.citations \in {<<>>, <<CitP1>>, <<CitBadDocId>>}
        /\ pl.customer_message \in {<<>>, <<"txt">>}
        /\ pl.missing_info_questions = <<>>
        /\ ~pl.info_not_found}

\* A raw model output, by what each stage of _parse_json_response finds in
\* it: json.loads of the whole text, of the body of each fenced block, of each
\* match of the brace pattern.  None stands for JSONDecodeError.
RawOutput(strict, fenced, brace) ==
    [strict |-> strict, fenced |-> fenced, brace |-> brace]

Garbage == RawOutput(None, <<>>, <<>>)

RawOutputs ==
    {RawOutput(Some(pl), <<>>, <<Some(pl)>>) : pl \in ChatPayloads}
    \cup {RawOutput(Some(JsonArray), <<>>, <<>>),
          RawOutput(Some(JsonNull), <<>>, <<>>),
          Garbage}
    \cup {RawOutput(None, <<None, Some(pl)>>, <<None>>) :
            pl \in {q \in ChatPayloads : q.actions # <<>> /\ q.citations = <<>>
                                         /\ q.customer_message = <<>>}}
    \cup {RawOutput(None, <<>>, <<Some(pl)>>) :
            pl \in {q \in ChatPayloads : q.actions = <<>> /\ q.citations = <<>>
                                         /\ q.customer_message # <<>>}}

\* json.loads gives Python None for the JSON text null
Loaded(v) == IF v[1].kind = "null" THEN None ELSE v

RECURSIVE FirstLoaded(_)
\* "for match in ...: try: return json.loads(match) / except: continue"
FirstLoaded(matches) ==
    IF matches = <<>> THEN <<>>
    ELSE IF Head(matches) # None THEN <<Loaded(Head(matches))>>
         ELSE FirstLoaded(Tail(matches))

\* _parse_json_response: None, or the decoded value
_parse_json_response(raw) ==
    IF raw.strict # None THEN Loaded(raw.strict)
    ELSE IF FirstLoaded(raw.fenced) # <<>> THEN FirstLoaded(raw.fenced)[1]
    ELSE IF FirstLoaded(raw.brace) # <<>> THEN FirstLoaded(raw.brace)[1]
    ELSE None


\* ------------------------------------------------------------------ answers
AgentResponse(msg, actions, missing, citations, risk_flags, used, inf) ==
    [customer_message |-> msg, actions |-> actions,
     missing_info_questions |-> missing, citations |-> citations,
     risk_flags |-> risk_flags, raw_passages_used |-> used,
     info_not_found |-> inf]

RiskFlag(flag_type, description, severity) ==
    [flag_type |-> flag_type, description |-> description,
     severity |-> severity]

\* the answer of the "fraud not confirmed" branch of process_chat
NotConfirmedResponse ==
    AgentResponse(<<"Pouvez-vous confirmer qu'il s'agit d'une fraude ?">>,
                  <<>>, <<"S'agit-il d'une transaction non effectuee ?">>,
                  <<>>, <<>>, 0, FALSE)

\* _build_off_topic_response
_build_off_topic_response ==
    AgentResponse(<<"Je peux vous aider uniquement sur la fraude bancaire.">>,
                  <<>>,
                  <<"Paiement carte, virement ou prelevement ?",
                    "Est-ce une operation non autorisee ?">>,
                  <<>>, <<>>, 0, TRUE)

\* the [:2] of _build_safe_refusal_response
RefusalCitations(passages) ==
    LET top == Take(passages, TopAttach)
    IN [k \in 1..Len(top) |-> CitationOf(top[k])]

\* _build_safe_refusal_response once the retriever has answered
_build_safe_refusal_response(passages) ==
    AgentResponse(<<"Je ne peux pas traiter des numeros de carte/CVV/PIN/OTP.">>,
                  <<"Faites immediatement opposition.",
                    "Contactez votre banque via les canaux officiels.",
                    "Ne partagez jamais de CVV/PIN/OTP.">>,
                  <<>>,
                  RefusalCitations(passages),
                  <<RiskFlag("sensitive_data_shared",
                             "donnees sensibles partagees", "high")>>,
                  Len(passages), FALSE)

\* the fallback with info_not_found left at its default
FallbackWithoutNotFound(reason, passages) ==
    AgentResponse(<<"Je rencontre un probleme technique.">>,
                  <<"Contactez immediatement votre banque",
                    "Ne communiquez jamais vos codes confidentiels">>,
                  <<>>, <<>>,
                  <<RiskFlag("technical_issue", reason, "low")>>,
                  Len(passages), FALSE)

\* _build_fallback_response
_build_fallback_response(reason, passages) ==
    AgentResponse(<<"Je rencontre un probleme technique.">>,
                  <<"Contactez immediatement votre banque",
                    "Ne communiquez jamais vos codes confidentiels">>,
                  <<>>, <<>>,
                  <<RiskFlag("technical_issue", reason, "low")>>,
                  Len(passages), TRUE)

\* the answer of the weak-retrieval branch of process_chat
WeakRetrievalResponse(passages) ==
    AgentResponse(<<"Je ne trouve pas une procedure suffisamment precise.">>,
                  <<>>,
                  <<"Paiement carte, virement (IBAN) ou prelevement (SEPA) ?",
                    "Quel est le canal et la date ?">>,
                  <<>>, <<>>, Len(passages), TRUE)

\* ChatResponse
ChatResponse(success, answer) == [success |-> success, agent_response |-> answer]

\* the filter with any positive score taken as strong
StrongPassagesPositive(passages) ==
    SelectSeqBy(passages, {p \in Range(passages) : p.score > 0})

\* strong_passages = [p for p in passages if p.score >= MIN_PASSAGE_SCORE]
StrongPassages(passages) ==
    SelectSeqBy(passages, {p \in Range(passages) : p.score >= MIN_PASSAGE_SCORE})

\* one entry of the message list handed to the generation call
ChatMessage(role, tag, text, passages, raw) ==
    [role |-> role, tag |-> tag, text |-> text, passages |-> passages,
     raw |-> raw]

\* messages = [system prompt, build_user_message(sanitized, tx, strong[:8])]
FirstMessages(sanitized, strong) ==
    <<ChatMessage("system", "system_prompt", None, <<>>, None),
      ChatMessage("user", "user_message", Some(sanitized), Take(strong, 8), None)>>

\* the two messages.append of the repair retry
RepairMessages(messages, raw) ==
    messages \o
    <<ChatMessage("assistant", "raw", None, <<>>, Some(raw)),
      ChatMessage("user", "corrective", None, <<>>, None)>>

\* build_query_for_retrieval: the message it is given, followed by the channel
\* keywords and the fixed fraud vocabulary
build_query_for_retrieval(user_message) ==
    [kind |-> "query", user_message |-> Some(user_message)]

\* the retrieval_hint of the sensitive-data guard: a fixed text
RefusalHint == [kind |-> "hint", user_message |-> None]

\* what the vector index and the lexical ranker may report
Distances == {100, 950}
Bm25Scores == {0, 1, 4}


\* -------------------------------------------------------------------- state
VARIABLES
    pc,                \* position of process_chat: idle, refusal_retrieve,
                       \* retrieve, generate, done
    request,           \* Optional ChatRequest: user_message, fraud_confirmed
    sanitized_message, \* Optional result of validate_user_input
    collection,        \* HybridRetriever: chunks of the vector collection
    bm25,              \* HybridRetriever._bm25 / _chunks_for_bm25 (Optional)
    passages,          \* Optional list returned by retriever.retrieve
    retrieval_query,   \* Optional query handed to retriever.retrieve
    messages,          \* the message list of process_chat
    call_log,          \* message list of each _call_ollama call issued
    attempts,          \* transport attempts made by each call issued
    outputs,           \* raw output of each call that succeeded
    outcome,           \* none, returned, raised
    response,          \* Optional ChatResponse returned to the caller
    path,              \* branch of process_chat that ended the request
    failed,            \* external collaborators that failed in this request
    rc_parsed,         \* reconciler called on its own: payload
    rc_passages,       \*   candidate passages
    rc_answer,         \*   Optional answer
    loop,              \* handler running on the event loop: none, ingest, chat
    ix_pc,             \* position of initialize_retriever: idle, files,
                       \* deleted, embedded, added, done
    ix_docs,           \* files of the docs directory, sorted, for this call
    ix_files,          \* files ingest_all_documents has not processed yet
    all_chunks,        \* all_chunks of ingest_all_documents
    ix_errors,         \* errors of ingest_all_documents
    ix_raised,         \* Optional exception raised by index_documents
    ix_result,         \* Optional (count, errors) of initialize_retriever
    ix_prev,           \* vector collection and lexical corpus before the call
    half_rebuilt,      \* old collection deleted, new generation not in place
    ch_pc,             \* position of the chat route: idle, retrieve, done
    ch_obs,            \* Optional: what the chat route did and observed
    rt_in,             \* retrieve called on its own: index and search scores
    rt_out,            \*   Optional result sets and returned list
    ck_in,             \* Optional call of split_into_chunks: text, settings,
                       \*   arguments, caller
    ck_pc,             \* position of the generator: idle, loop, done
    ck_text,           \* text of split_into_chunks, once cleaned
    ck_start,          \* start of split_into_chunks
    ck_yielded,        \* the (content, start_char, end_char) yielded so far
    ck_kept,           \* contents process_document made chunks of
    id_in,             \* Optional pair of generate_chunk_id argument tuples
    id_out             \* Optional pair of the ids generated for them

vars == <<pc, request, sanitized_message, collection, bm25, passages,
          retrieval_query, messages, call_log, attempts, outputs, outcome, response, path, failed,
          rc_parsed, rc_passages, rc_answer,
          loop, ix_pc, ix_docs, ix_files, all_chunks, ix_errors, ix_raised,
          ix_result, ix_prev, half_rebuilt, ch_pc, ch_obs, rt_in, rt_out,
          ck_in, ck_pc, ck_text, ck_start, ck_yielded, ck_kept, id_in, id_out>>

retriever_vars == <<collection, bm25>>
rc_vars == <<rc_parsed, rc_passages, rc_answer>>
ingest_vars == <<ix_pc, ix_docs, ix_files, all_chunks, ix_errors, ix_raised,
                 ix_result, ix_prev>>
chat_vars == <<ch_pc, ch_obs>>
ix_vars == <<loop, ingest_vars, half_rebuilt, chat_vars>>
rt_vars == <<rt_in, rt_out>>
ck_vars == <<ck_in, ck_pc, ck_text, ck_start, ck_yielded, ck_kept>>
id_vars == <<id_in, id_out>>
request_vars == <<pc, request, sanitized_message, passages, retrieval_query,
                  messages, call_log, attempts, outputs, outcome, response, path, failed>>

ChatRequests == [user_message : UserMessages, fraud_confirmed : BOOLEAN]

\* no request in progress
IdleRequest ==
    /\ pc = "idle"
    /\ request = None
    /\ sanitized_message = None
    /\ passages = None
    /\ retrieval_query = None
    /\ messages = <<>>
    /\ call_log = <<>>
    /\ attempts = <<>>
    /\ outputs = <<>>
    /\ outcome = "none"
    /\ response = None
    /\ path = "none"
    /\ failed = {}

\* the reconciler is not called on its own
RcIdle ==
    /\ rc_parsed = JsonNull
    /\ rc_passages = <<>>
    /\ rc_answer = None

\* initialize_retriever is not running
IngestIdle ==
    /\ ix_pc = "idle"
    /\ ix_docs = <<>>
    /\ ix_files = <<>>
    /\ all_chunks = <<>>
    /\ ix_errors = <<>>
    /\ ix_raised = None
    /\ ix_result = None
    /\ ix_prev = None

\* no handler of the application is running
IxIdle ==
    /\ loop = "none"
    /\ IngestIdle
    /\ half_rebuilt = FALSE
    /\ ch_pc = "idle"
    /\ ch_obs = None

\* split_into_chunks not called
CkIdle ==
    /\ ck_in = None
    /\ ck_pc = "idle"
    /\ ck_text = <<>>
    /\ ck_start = 0
    /\ ck_yielded = <<>>
    /\ ck_kept = <<>>

\* generate_chunk_id not called
IdIdle ==
    /\ id_in = None
    /\ id_out = None

\* retrieve is not called on its own
RtIdle ==
    /\ rt_in = None
    /\ rt_out = None

\* A retriever just constructed over a persistent store that is empty or
\* holds the corpus; no lexical index is built yet.
Init ==
    /\ IdleRequest
    /\ collection \in {<<>>, Corpus}
    /\ bm25 = None
    /\ RcIdle
    /\ IxIdle
    /\ RtIdle
    /\ CkIdle
    /\ IdIdle

\* process_chat returns resp
Finish(success, answer, branch) ==
    /\ pc' = "done"
    /\ outcome' = "returned"
    /\ response' = Some(ChatResponse(success, answer))
    /\ path' = branch

\* process_chat without its handler: the exception reaches the caller
ExceptionEscapes(who) ==
    /\ pc' = "done"
    /\ outcome' = "raised"
    /\ path' = "exception"
    /\ failed' = failed \cup who
    /\ UNCHANGED response

\* the "except Exception" handler of process_chat
ExceptHandler(who) ==
    /\ Finish(FALSE, _build_fallback_response("error", <<>>), "exception")
    /\ failed' = failed \cup who

\* process_chat up to its first call of an external collaborator:
\* validate_user_input, then the three guards in the order of the source
ProcessChat(req) ==
    /\ pc = "idle"
    /\ LET v == validate_user_input(req.user_message)
       IN /\ request' = Some(req)
          /\ sanitized_message' = Some(v.sanitized)
          /\ IF ~req.fraud_confirmed
             THEN Finish(TRUE, NotConfirmedResponse, "not_confirmed")
             ELSE IF _looks_off_topic(v.sanitized)
             THEN Finish(TRUE, _build_off_topic_response, "off_topic")
             ELSE IF _contains_sensitive_data(v.sanitized)
             THEN /\ pc' = "refusal_retrieve"
                  /\ UNCHANGED <<outcome, response, path>>
             ELSE /\ pc' = "retrieve"
                  /\ UNCHANGED <<outcome, response, path>>
    /\ UNCHANGED <<passages, retrieval_query, messages, call_log, attempts,
                   outputs, failed>>
    /\ UNCHANGED retriever_vars
    /\ UNCHANGED rc_vars
    /\ UNCHANGED ix_vars
    /\ UNCHANGED <<rt_vars, ck_vars, id_vars>>

\* retriever.retrieve answers: lazy load of the lexical index, both searches,
\* fusion, trust scan
RetrieveOk(dist, scores) ==
    /\ bm25' = LazyBm25(collection, bm25)
    /\ passages' = Some(retrieve(collection, bm25', dist, scores))
    /\ UNCHANGED collection

\* retriever.retrieve raises (vector store or embedding model unavailable),
\* before or after the lazy load
RetrieveRaises ==
    /\ bm25' \in {bm25, LazyBm25(collection, bm25)}
    /\ UNCHANGED <<collection, passages>>

\* _build_safe_refusal_response: its retrieval runs outside the try block of
\* process_chat
RefusalRetrieve ==
    /\ pc = "refusal_retrieve"
    /\ retrieval_query' = Some(RefusalHint)
    /\ \/ \E dist \in [1..Len(collection) -> Distances],
             scores \in [1..Len(collection) -> Bm25Scores] :
            /\ RetrieveOk(dist, scores)
            /\ Finish(TRUE, _build_safe_refusal_response(passages'[1]), "refusal")
            /\ UNCHANGED failed
       \/ /\ RetrieveRaises
          /\ pc' = "done"
          /\ outcome' = "raised"
          /\ path' = "refusal_raised"
          /\ failed' = failed \cup {"retriever"}
          /\ UNCHANGED response
    /\ UNCHANGED <<request, sanitized_message, messages, call_log, attempts,
                   outputs>>
    /\ UNCHANGED rc_vars
    /\ UNCHANGED ix_vars
    /\ UNCHANGED <<rt_vars, ck_vars, id_vars>>

\* the retrieval of the main path, the weak-retrieval branch and the first
\* call of _call_ollama
Retrieve ==
    /\ pc = "retrieve"
    /\ retrieval_query' = Some(build_query_for_retrieval(sanitized_message[1]))
    /\ \/ \E dist \in [1..Len(collection) -> Distances],
             scores \in [1..Len(collection) -> Bm25Scores] :
            /\ RetrieveOk(dist, scores)
            /\ LET strong_passages == StrongPassages(passages'[1])
               IN IF strong_passages = <<>>
                  THEN /\ Finish(TRUE, WeakRetrievalResponse(passages'[1]), "weak")
                       /\ UNCHANGED <<messages, call_log, attempts>>
                  ELSE /\ messages' = FirstMessages(sanitized_message[1],
                                                    strong_passages)
                       /\ call_log' = <<messages'>>
                       /\ attempts' = <<0>>
                       /\ pc' = "generate"
                       /\ UNCHANGED <<outcome, response, path>>
            /\ UNCHANGED failed
       \/ /\ RetrieveRaises
          /\ ExceptHandler({"retriever"})
          /\ UNCHANGED <<messages, call_log, attempts>>
    /\ UNCHANGED <<request, sanitized_message, outputs>>
    /\ UNCHANGED rc_vars
    /\ UNCHANGED ix_vars
    /\ UNCHANGED <<rt_vars, ck_vars, id_vars>>

\* attempts with one more transport attempt counted for the running call
OneMoreAttempt == [attempts EXCEPT ![Len(attempts)] = @ + 1]

\* the budget test off by one
BudgetSpentLate(n) == n > MaxTransportAttempts

\* stop_after_attempt(3): is the budget of the running call spent?
BudgetSpent(n) == n >= MaxTransportAttempts

\* one transport attempt of _call_ollama fails; tenacity re-tries until the
\* budget is spent, then raises RetryError into process_chat
CallOllamaFails ==
    /\ pc = "generate"
    /\ attempts' = OneMoreAttempt
    /\ IF BudgetSpent(attempts'[Len(attempts')])
       THEN ExceptHandler({"generation"})
       ELSE UNCHANGED <<pc, outcome, response, path, failed>>
    /\ UNCHANGED <<request, sanitized_message, passages, retrieval_query,
                   messages, call_log, outputs>>
    /\ UNCHANGED retriever_vars
    /\ UNCHANGED rc_vars
    /\ UNCHANGED ix_vars
    /\ UNCHANGED <<rt_vars, ck_vars, id_vars>>

\* the repair retry issued after every parse failure
RepairRetryEveryTime(parsed, calls) == parsed = None

\* "if parsed is None" after the first call: is the repair retry issued?
RepairRetry(parsed, calls) == parsed = None /\ calls = 1

\* one transport attempt of _call_ollama succeeds with raw; process_chat
\* parses it, then re-issues the call, falls back or reconciles
CallOllamaOk(raw) ==
    /\ pc = "generate"
    /\ outputs' = Append(outputs, raw)
    /\ LET parsed == _parse_json_response(raw)
           strong_passages == StrongPassages(passages[1])
       IN IF RepairRetry(parsed, Len(call_log))
          THEN /\ messages' = RepairMessages(messages, raw)
               /\ call_log' = Append(call_log, messages')
               /\ attempts' = Append(OneMoreAttempt, 0)
               /\ UNCHANGED <<pc, outcome, response, path, failed>>
          ELSE /\ attempts' = OneMoreAttempt
               /\ UNCHANGED <<messages, call_log>>
               /\ IF parsed = None
                  THEN /\ Finish(TRUE,
                            _build_fallback_response(
                                "JSON parsing failed after retry",
                                strong_passages),
                            "parse_fallback")
                       /\ UNCHANGED failed
                  ELSE IF ReconcileRaises(parsed[1])
                  THEN ExceptHandler({})
                  ELSE /\ Finish(TRUE,
                            _validate_and_build_response(parsed[1],
                                                         strong_passages),
                            "reconciled")
                       /\ UNCHANGED failed
    /\ UNCHANGED <<request, sanitized_message, passages, retrieval_query>>
    /\ UNCHANGED retriever_vars
    /\ UNCHANGED rc_vars
    /\ UNCHANGED ix_vars
    /\ UNCHANGED <<rt_vars, ck_vars, id_vars>>

\* the caller has its response (or exception); the agent awaits the next
\* request
Return ==
    /\ pc = "done"
    /\ pc' = "idle"
    /\ request' = None
    /\ sanitized_message' = None
    /\ passages' = None
    /\ retrieval_query' = None
    /\ messages' = <<>>
    /\ call_log' = <<>>
    /\ attempts' = <<>>
    /\ outputs' = <<>>
    /\ outcome' = "none"
    /\ response' = None
    /\ path' = "none"
    /\ failed' = {}
    /\ UNCHANGED retriever_vars
    /\ UNCHANGED rc_vars
    /\ UNCHANGED ix_vars
    /\ UNCHANGED <<rt_vars, ck_vars, id_vars>>

Next ==
    \/ \E req \in ChatRequests : ProcessChat(req)
    \/ RefusalRetrieve
    \/ Retrieve
    \/ CallOllamaFails
    \/ \E raw \in RawOutputs : CallOllamaOk(raw)
    \/ Return

Spec == Init /\ [][Next]_vars


\* ------------------------------------------- the reconciler called directly
\* Candidate sets: what retrieve returns over an index of zero to three
\* chunks, as returned and reduced to the strong passages.
RcCorpora == {<<>>, <<ChunkA, ChunkB>>, <<ChunkA, ChunkB, ChunkC>>}

RcRetrieved ==
    {retrieve(coll, Some(coll), dist, scores) :
        <<coll, dist, scores>> \in
            {t \in RcCorpora \X SeqsUpTo(Distances, 3) \X SeqsUpTo({0, 4}, 3) :
                Len(t[2]) = Len(t[1]) /\ Len(t[3]) = Len(t[1])}}

RcPassageLists == RcRetrieved \cup {StrongPassages(ps) : ps \in RcRetrieved}

InitReconcile ==
    /\ IdleRequest
    /\ collection = <<>>
    /\ bm25 = None
    /\ rc_parsed \in Payloads \cup {JsonArray}
    /\ rc_passages = <<>>
    /\ rc_answer = None
    /\ IxIdle
    /\ RtIdle
    /\ CkIdle
    /\ IdIdle

\* agent._validate_and_build_response(parsed, passages), as the tests call it
Reconcile(ps) ==
    /\ rc_answer = None
    /\ rc_passages' = ps
    /\ rc_answer' =
          IF ReconcileRaises(rc_parsed)
          THEN Some([raised |-> TRUE, answer |-> None])
          ELSE Some([raised |-> FALSE,
                     answer |-> Some(_validate_and_build_response(rc_parsed, ps))])
    /\ UNCHANGED rc_parsed
    /\ UNCHANGED request_vars
    /\ UNCHANGED retriever_vars
    /\ UNCHANGED ix_vars
    /\ UNCHANGED <<rt_vars, ck_vars, id_vars>>

NextReconcile == \E ps \in RcPassageLists : Reconcile(ps)

SpecReconcile == InitReconcile /\ [][NextReconcile]_vars


\* ------------------------------------------- ingestion and the chat route
\* A chunk of another file whose generated chunk_id collides with ChunkA's.
ChunkDup == [chunk_id |-> "c1", doc_id |-> "d3", page_or_section |-> "p1",
             content |-> <<"perte", "vol", "carte">>]

\* One file of the docs directory: process_document returns chunks (Some) or
\* raises (None).
DocFile(name, chunks) == [name |-> name, chunks |-> chunks]

\* What the docs directory may hold when initialize_retriever runs, as
\* sorted(files): a.md and b.md are always there, c.pdf may be.
DocsDirs ==
    {<<DocFile("a.md", a), DocFile("b.md", b)>> \o c :
        a \in {Some(<<ChunkA>>), None},
        b \in {Some(<<ChunkB>>), None},
        c \in {<<>>, <<DocFile("c.pdf", Some(<<ChunkC>>))>>,
               <<DocFile("c.pdf", Some(<<ChunkDup>>))>>}}

\* the batch given up at the first file that raises
RemainingAbort(files, raised) == IF raised THEN <<>> ELSE Tail(files)

\* the for loop of ingest_all_documents goes on to the next file whether
\* process_document returned or raised
RemainingFiles(files, raised) == Tail(files)

\* chunk_id of each chunk, in order
Ids(chunks) == [i \in 1..Len(chunks) |-> chunks[i].chunk_id]

RECURSIVE DuplicatesFrom(_, _, _)
\* [item for item, count in Counter(ids).items() if count > 1]: the ids that
\* occur more than once, in order of first occurrence
DuplicatesFrom(ids, i, out) ==
    IF i > Len(ids) THEN out
    ELSE IF /\ \E j \in 1..Len(ids) : j # i /\ ids[j] = ids[i]
            /\ ids[i] \notin Range(out)
         THEN DuplicatesFrom(ids, i + 1, Append(out, ids[i]))
         ELSE DuplicatesFrom(ids, i + 1, out)

\* a batch never found to hold a duplicate
NoDuplicates(ids) == <<>>

Duplicates(ids) == DuplicatesFrom(ids, 1, <<>>)

\* neither handler holds the loop between two of its steps
SuspendsEverywhere(handler, at) == TRUE

\* Does the handler suspend (await) at this position and let the event loop
\* run another handler?  ingest_documents and chat are coroutines that call
\* initialize_retriever and process_chat without an await that suspends.
Suspends(handler, at) == FALSE

\* the handler may take its next step
Runs(handler, at) ==
    \/ loop = handler
    \/ loop = "none" /\ at # "idle" /\ Suspends(handler, at)

\* who holds the event loop once the handler stands at position at
Holder(handler, at) ==
    IF at = "idle" \/ Suspends(handler, at) THEN "none" ELSE handler

\* initialize_retriever returns (count, errors)
InitializeReturns(count, errors) ==
    /\ ix_result' = Some([count |-> count, errors |-> errors])
    /\ ix_pc' = "done"
    /\ loop' = Holder("ingest", "done")

\* POST /ingest: initialize_retriever(force_reindex) up to its first file.
\* With an index present and no force it returns the count, after rebuilding
\* a missing lexical index from the collection (a failure of that rebuild is
\* logged and swallowed).
IngestStart(force_reindex, docs) ==
    /\ loop = "none"
    /\ ix_pc = "idle"
    /\ ix_prev' = Some([collection |-> collection, bm25 |-> bm25])
    /\ IF ~force_reindex /\ Len(collection) > 0
       THEN /\ bm25' \in {LazyBm25(collection, bm25), bm25}
            /\ InitializeReturns(Len(collection), <<>>)
            /\ UNCHANGED <<ix_docs, ix_files>>
       ELSE /\ ix_docs' = docs
            /\ ix_files' = docs
            /\ ix_pc' = "files"
            /\ loop' = Holder("ingest", "files")
            /\ UNCHANGED <<bm25, ix_result>>
    /\ UNCHANGED <<collection, all_chunks, ix_errors, ix_raised, half_rebuilt>>
    /\ UNCHANGED chat_vars
    /\ UNCHANGED <<request_vars, rc_vars, rt_vars, ck_vars,
                 id_vars>>

\* one turn of the for loop of ingest_all_documents
ProcessDocument ==
    /\ Runs("ingest", ix_pc)
    /\ ix_pc = "files"
    /\ ix_files # <<>>
    /\ LET file_path == Head(ix_files)
       IN /\ IF file_path.chunks # None
             THEN /\ all_chunks' = all_chunks \o file_path.chunks[1]
                  /\ UNCHANGED ix_errors
             ELSE /\ ix_errors' = Append(ix_errors, file_path.name)
                  /\ UNCHANGED all_chunks
          /\ ix_files' = RemainingFiles(ix_files, file_path.chunks = None)
    /\ loop' = Holder("ingest", "files")
    /\ UNCHANGED <<ix_pc, ix_docs, ix_raised, ix_result, ix_prev, half_rebuilt>>
    /\ UNCHANGED chat_vars
    /\ UNCHANGED <<retriever_vars, request_vars, rc_vars, rt_vars, ck_vars,
                 id_vars>>

\* ingest_all_documents returns all_chunks and index_documents starts: with
\* no chunk it returns 0, otherwise it deletes the collection
IndexDelete ==
    /\ Runs("ingest", ix_pc)
    /\ ix_pc = "files"
    /\ ix_files = <<>>
    /\ IF all_chunks = <<>>
       THEN /\ InitializeReturns(0, <<>>)
            /\ UNCHANGED <<collection, half_rebuilt>>
       ELSE /\ collection' = <<>>
            /\ half_rebuilt' = TRUE
            /\ ix_pc' = "deleted"
            /\ loop' = Holder("ingest", "deleted")
            /\ UNCHANGED ix_result
    /\ UNCHANGED <<bm25, ix_docs, ix_files, all_chunks, ix_errors, ix_raised,
                   ix_prev>>
    /\ UNCHANGED chat_vars
    /\ UNCHANGED <<request_vars, rc_vars, rt_vars, ck_vars,
                 id_vars>>

\* index_documents raises e; initialize_retriever catches it and returns
\* (0, ["Indexing failed: ..."])
IndexRaises(e) ==
    /\ ix_raised' = Some(e)
    /\ InitializeReturns(0, <<e>>)

\* generate_embeddings(documents) returns or raises
IndexEmbed ==
    /\ Runs("ingest", ix_pc)
    /\ ix_pc = "deleted"
    /\ \/ /\ ix_pc' = "embedded"
          /\ loop' = Holder("ingest", "embedded")
          /\ UNCHANGED <<ix_raised, ix_result>>
       \/ IndexRaises([kind |-> "embedding", ids |-> <<>>])
    /\ UNCHANGED <<ix_docs, ix_files, all_chunks, ix_errors, ix_prev,
                   half_rebuilt>>
    /\ UNCHANGED chat_vars
    /\ UNCHANGED <<retriever_vars, request_vars, rc_vars, rt_vars, ck_vars,
                 id_vars>>

\* the duplicate test, then collection.add
IndexAdd ==
    /\ Runs("ingest", ix_pc)
    /\ ix_pc = "embedded"
    /\ LET duplicates == Duplicates(Ids(all_chunks))
       IN IF duplicates # <<>>
          THEN /\ IndexRaises([kind |-> "duplicate_ids",
                               ids |-> Take(duplicates, 3)])
               /\ UNCHANGED collection
          ELSE /\ collection' = all_chunks
               /\ ix_pc' = "added"
               /\ loop' = Holder("ingest", "added")
               /\ UNCHANGED <<ix_raised, ix_result>>
    /\ UNCHANGED <<bm25, ix_docs, ix_files, all_chunks, ix_errors, ix_prev,
                   half_rebuilt>>
    /\ UNCHANGED chat_vars
    /\ UNCHANGED <<request_vars, rc_vars, rt_vars, ck_vars,
                 id_vars>>

\* _build_bm25_index(chunks), then index_documents returns len(chunks)
IndexBuildBm25 ==
    /\ Runs("ingest", ix_pc)
    /\ ix_pc = "added"
    /\ bm25' = Some(all_chunks)
    /\ half_rebuilt' = FALSE
    /\ InitializeReturns(Len(all_chunks), <<>>)
    /\ UNCHANGED <<collection, ix_docs, ix_files, all_chunks, ix_errors,
                   ix_raised, ix_prev>>
    /\ UNCHANGED chat_vars
    /\ UNCHANGED <<request_vars, rc_vars, rt_vars, ck_vars,
                 id_vars>>

\* ingest_documents returns its IngestResponse
IngestReturn ==
    /\ Runs("ingest", ix_pc)
    /\ ix_pc = "done"
    /\ ix_pc' = "idle"
    /\ loop' = "none"
    /\ ix_docs' = <<>>
    /\ ix_files' = <<>>
    /\ all_chunks' = <<>>
    /\ ix_errors' = <<>>
    /\ ix_raised' = None
    /\ ix_result' = None
    /\ ix_prev' = None
    /\ UNCHANGED half_rebuilt
    /\ UNCHANGED chat_vars
    /\ UNCHANGED <<retriever_vars, request_vars, rc_vars, rt_vars, ck_vars,
                 id_vars>>

\* what a chat request did: the status of the route, the chunk ids of the
\* collection and of the lexical corpus retrieve searched, and whether the
\* index was half rebuilt then
ChatObservation(status, coll, lexical, half) ==
    [status |-> status, semantic |-> Range(Ids(coll)),
     lexical |-> IF lexical = None THEN {} ELSE Range(Ids(lexical[1])),
     half |-> half]

\* POST /chat: the route answers 503 over an empty index, else calls
\* process_chat
ChatStart ==
    /\ loop = "none"
    /\ ch_pc = "idle"
    /\ IF Len(collection) = 0
       THEN /\ ch_obs' = Some(ChatObservation(503, <<>>, None, half_rebuilt))
            /\ ch_pc' = "done"
            /\ loop' = Holder("chat", "done")
       ELSE /\ ch_pc' = "retrieve"
            /\ loop' = Holder("chat", "retrieve")
            /\ UNCHANGED ch_obs
    /\ UNCHANGED <<ingest_vars, half_rebuilt>>
    /\ UNCHANGED <<retriever_vars, request_vars, rc_vars, rt_vars, ck_vars,
                 id_vars>>

\* process_chat reaches retriever.retrieve: the lazy load, then both searches
ChatRetrieve ==
    /\ Runs("chat", ch_pc)
    /\ ch_pc = "retrieve"
    /\ bm25' = LazyBm25(collection, bm25)
    /\ ch_obs' = Some(ChatObservation(200, collection, bm25', half_rebuilt))
    /\ ch_pc' = "done"
    /\ loop' = Holder("chat", "done")
    /\ UNCHANGED <<collection, ingest_vars, half_rebuilt>>
    /\ UNCHANGED <<request_vars, rc_vars, rt_vars, ck_vars,
                 id_vars>>

\* chat returns its response
ChatReturn ==
    /\ Runs("chat", ch_pc)
    /\ ch_pc = "done"
    /\ ch_pc' = "idle"
    /\ ch_obs' = None
    /\ loop' = "none"
    /\ UNCHANGED <<ingest_vars, half_rebuilt>>
    /\ UNCHANGED <<retriever_vars, request_vars, rc_vars, rt_vars, ck_vars,
                 id_vars>>

NextIndex ==
    \/ \E force_reindex \in BOOLEAN, docs \in DocsDirs :
          IngestStart(force_reindex, docs)
    \/ ProcessDocument
    \/ IndexDelete
    \/ IndexEmbed
    \/ IndexAdd
    \/ IndexBuildBm25
    \/ IngestReturn
    \/ ChatStart
    \/ ChatRetrieve
    \/ ChatReturn

SpecIndex == Init /\ [][NextIndex]_vars


\* ---------------------------------------------- retrieve called directly
\* Cosine distances the vector index may report: the distance of the cosine
\* space runs from 0 to 2, so the similarity 1 - distance may be negative.
RtDistances == {100, 950, 1200}

\* the indexes retrieve may find: a collection, and a lexical corpus that is
\* missing, empty, or holds the chunks of some generation
RtCorpora ==
    {<<>>, <<ChunkA, ChunkB>>, <<ChunkA, ChunkB, ChunkC>>, <<ChunkB, ChunkD>>}

\* the top_k arguments of retrieve
RtTopK == [semantic : {2, TopKSemantic}, bm25 : {2, TopKBm25}]

RtInput(coll, lexical, dist, scores, top_k) ==
    [coll |-> coll, bm25 |-> lexical, dist |-> dist, scores |-> scores,
     top_k |-> top_k]

InitRetrieve ==
    /\ IdleRequest
    /\ collection = <<>>
    /\ bm25 = None
    /\ RcIdle
    /\ IxIdle
    /\ CkIdle
    /\ IdIdle
    /\ rt_out = None
    /\ \E coll \in RtCorpora, lexical \in {None} \cup {Some(c) : c \in RtCorpora},
          top_k \in RtTopK :
          LET loaded == LazyBm25(coll, lexical)
              n == IF loaded = None THEN 0 ELSE Len(loaded[1])
          IN \E dist \in [1..Len(coll) -> RtDistances],
                scores \in [1..n -> Bm25Scores] :
                rt_in = Some(RtInput(coll, lexical, dist, scores, top_k))

\* retriever.retrieve(query, top_k_semantic, top_k_bm25): the lazy load, the
\* two searches, the fusion and the trust scan
RetrieveCall ==
    /\ rt_out = None
    /\ LET in == rt_in[1]
           loaded == LazyBm25(in.coll, in.bm25)
       IN rt_out' =
            Some([semantic_results |->
                      _search_semantic(in.coll, in.dist, in.top_k.semantic),
                  bm25_results |->
                      _search_bm25(loaded, in.scores, in.top_k.bm25),
                  lexical_corpus |-> loaded,
                  returned |->
                      retrieve_top_k(in.coll, loaded, in.dist, in.scores,
                                     in.top_k.semantic, in.top_k.bm25)])
    /\ UNCHANGED rt_in
    /\ UNCHANGED <<retriever_vars, request_vars, rc_vars, ix_vars, ck_vars,
                   id_vars>>

NextRetrieve == RetrieveCall

SpecRetrieve == InitRetrieve /\ [][NextRetrieve]_vars


\* =============================================================== chunking
\* ingestion.split_into_chunks as process_document and the tests drive it.
\* A text is a sequence of characters; the texts are built from a few
\* segments so that sentence boundaries and plain spaces fall at varied
\* distances from a chunk's start.

DefaultChunkSize == 500
DefaultChunkOverlap == 50
SentenceLookback == 100
SpaceLookback == 50
MinChunkLength == 20

MaxSegments == 5
MaxYields == 4

Max(a, b) == IF a >= b THEN a ELSE b

MaxOf(S) == CHOOSE m \in S : \A x \in S : x <= m

\* a capitalised word, a lower-case word, a space, a full stop
CapWord == [k \in 1..12 |-> IF k = 1 THEN "A" ELSE "a"]
LowWord == [k \in 1..5 |-> "a"]
Segments == {CapWord, LowWord, <<" ">>, <<".">>}

RECURSIVE Concat(_)
Concat(segs) == IF segs = <<>> THEN <<>> ELSE Head(segs) \o Concat(Tail(segs))

\* section["text"] of a document section
SectionTexts == {Concat(segs) : segs \in SeqsUpTo(Segments, MaxSegments)}

RECURSIVE CollapseSpaces(_)
\* re.sub(r' {2,}', ' ', text); the texts hold no newline, so the
\* substitution of three newlines or more before it changes nothing
CollapseSpaces(text) ==
    IF Len(text) < 2 THEN text
    ELSE IF text[1] = " " /\ text[2] = " " THEN CollapseSpaces(Tail(text))
    ELSE <<text[1]>> \o CollapseSpaces(Tail(text))

\* a slice index of Python over a string of length n: a negative index
\* counts from the end, and both ends are clipped
PyIndex(i, n) == IF i < 0 THEN Max(n + i, 0) ELSE Min(i, n)

\* text[a:b]
PySlice(text, a, b) ==
    LET lo == PyIndex(a, Len(text))
        hi == PyIndex(b, Len(text))
    IN IF lo >= hi THEN <<>> ELSE SubSeq(text, lo + 1, hi)

RECURSIVE PyLstrip(_)
PyLstrip(text) ==
    IF text # <<>> /\ Head(text) = " " THEN PyLstrip(Tail(text)) ELSE text

RECURSIVE PyRstrip(_)
PyRstrip(text) ==
    IF text # <<>> /\ text[Len(text)] = " "
    THEN PyRstrip(SubSeq(text, 1, Len(text) - 1)) ELSE text

\* str.strip()
PyStrip(text) == PyRstrip(PyLstrip(text))

\* text.rfind(' ', a, b): the highest index in the slice a:b, or -1
PyRfindSpace(text, a, b) ==
    LET lo == PyIndex(a, Len(text))
        hi == PyIndex(b, Len(text))
        hits == {i \in lo..(hi - 1) : text[i + 1] = " "}
    IN IF hits = {} THEN -1 ELSE MaxOf(hits)

\* match.end() of every match of (?<=[.!?])\s+(?=[A-ZÀ-Ÿ]) in search_text:
\* the index of an upper-case letter that follows a run of whitespace that
\* follows sentence punctuation
SentenceEndings(search_text) ==
    {e \in 0..(Len(search_text) - 1) :
        /\ search_text[e + 1] = "A"
        /\ \E q \in 1..(e - 1) :
              /\ search_text[q] = "."
              /\ \A k \in (q + 1)..e : search_text[k] = " "}

\* "chunk_size or settings.chunk_size": None and 0 give the setting
OrSetting(arg, setting) == IF arg # 0 THEN arg ELSE setting

\* the cut of one iteration that is not the last: the end of the last
\* sentence boundary of the lookback window, else the last space, else the
\* size limit
CutPoint(text, start, chunk_size) ==
    LET end == start + chunk_size
        search_start == Max(start + chunk_size - SentenceLookback, start)
        search_text == PySlice(text, search_start, end)
        matches == SentenceEndings(search_text)
    IN IF matches # {}
       THEN LET boundary == search_start + MaxOf(matches)
            IN IF boundary > start THEN boundary ELSE end
       ELSE LET space_pos ==
                    PyRfindSpace(text, start + chunk_size - SpaceLookback, end)
            IN IF space_pos > start THEN space_pos ELSE end

\* a value split_into_chunks yields
Yielded(content, start_char, end_char) ==
    [content |-> content, start_char |-> start_char, end_char |-> end_char]

\* the filter a short chunk would pass without
KeepsAll(content) == TRUE

\* process_document keeps a yielded content unless it is tiny
Keeps(content) == ~(Len(PyStrip(content)) < MinChunkLength)

\* (chunk_size, chunk_overlap) with 0 <= chunk_overlap < chunk_size
ChunkConfigs == {<<12, 3>>, <<24, 0>>, <<24, 6>>}

ChunkCall(text, caller, settings, args) ==
    [text |-> text, caller |-> caller,
     chunk_size |-> OrSetting(args[1], settings[1]),
     chunk_overlap |-> OrSetting(args[2], settings[2]),
     args |-> args, settings |-> settings]

DefaultSettings == <<DefaultChunkSize, DefaultChunkOverlap>>

InitChunk ==
    /\ IdleRequest
    /\ collection = <<>>
    /\ bm25 = None
    /\ RcIdle
    /\ IxIdle
    /\ RtIdle
    /\ IdIdle
    /\ \E text \in SectionTexts :
          \* process_document calls split_into_chunks(text) under the
          \* settings of the deployment
          \/ \E cfg \in ChunkConfigs \cup {DefaultSettings} :
                ck_in = Some(ChunkCall(text, "process_document", cfg,
                                       <<0, 0>>))
          \* the tests call it with explicit arguments under the default
          \* settings
          \/ \E cfg \in ChunkConfigs :
                ck_in = Some(ChunkCall(text, "test", DefaultSettings, cfg))
    /\ ck_pc = "idle"
    /\ ck_text = <<>>
    /\ ck_start = 0
    /\ ck_yielded = <<>>
    /\ ck_kept = <<>>

\* the consumer of one yielded value: process_document's loop body
Consume(y) ==
    /\ ck_yielded' = Append(ck_yielded, y)
    /\ ck_kept' = IF ck_in[1].caller = "process_document" /\ Keeps(y.content)
                  THEN Append(ck_kept, y.content) ELSE ck_kept

\* split_into_chunks up to its loop: the text is cleaned, and a text within
\* the size limit is yielded whole
SplitStart ==
    /\ ck_in # None
    /\ ck_pc = "idle"
    /\ LET text == CollapseSpaces(ck_in[1].text)
       IN /\ ck_text' = text
          /\ IF Len(text) <= ck_in[1].chunk_size
             THEN /\ Consume(Yielded(text, 0, Len(text)))
                  /\ ck_pc' = "done"
             ELSE /\ ck_pc' = "loop"
                  /\ UNCHANGED <<ck_yielded, ck_kept>>
    /\ ck_start' = 0
    /\ UNCHANGED ck_in
    /\ UNCHANGED <<retriever_vars, request_vars, rc_vars, ix_vars, rt_vars,
                   id_vars>>

\* one iteration of "while start < len(text)"
SplitStep ==
    /\ ck_pc = "loop"
    /\ Len(ck_yielded) < MaxYields
    /\ LET text == ck_text
           start == ck_start
           chunk_size == ck_in[1].chunk_size
       IN IF ~(start < Len(text))
          THEN /\ ck_pc' = "done"
               /\ UNCHANGED <<ck_start, ck_yielded, ck_kept>>
          ELSE IF start + chunk_size >= Len(text)
          THEN /\ Consume(Yielded(PySlice(text, start, Len(text)),
                                  start, Len(text)))
               /\ ck_pc' = "done"
               /\ UNCHANGED ck_start
          ELSE LET end == CutPoint(text, start, chunk_size)
               IN /\ Consume(Yielded(PyStrip(PySlice(text, start, end)),
                                     start, end))
                  /\ ck_start' = end - ck_in[1].chunk_overlap
                  /\ ck_pc' = "loop"
    /\ UNCHANGED <<ck_in, ck_text>>
    /\ UNCHANGED <<retriever_vars, request_vars, rc_vars, ix_vars, rt_vars,
                   id_vars>>

NextChunk == SplitStart \/ SplitStep

SpecChunk == InitChunk /\ [][NextChunk]_vars

\* ============================================================== chunk ids
\* ingestion.generate_chunk_id over a small domain of arguments.  SHA-1 is
\* modelled by its values: the digests below are those hashlib gives for
\* these very strings.

SourcePaths == {"/docs/a.md", "/docs/b.md"}
PageLabels == {"1", "2"}
ChunkIndexes == {0, 1}
ContentX == "Delai de contestation 17732407 mois"
ContentY == "Delai de contestation 21467023 mois"
Contents == {"content A", "content B", ContentX, ContentY}

\* hashlib.sha1(content.encode("utf-8")).hexdigest()[:12]
Sha1Hex12(content) ==
    CASE content = "content A" -> "c1757dcb6de6"
      [] content = "content B" -> "5923d941fd7c"
      [] content = "Delai de contestation 17732407 mois" -> "6948141f1922"
      [] content = "Delai de contestation 21467023 mois" -> "6948141f1922"

\* f"{source_path}|{page_or_section}|{chunk_index}|{content_hash}", kept as
\* its four fields
UniqueInput(source_path, page_or_section, chunk_index, content_hash) ==
    <<source_path, page_or_section, chunk_index, content_hash>>

\* hashlib.sha1(unique_input.encode("utf-8")).hexdigest()[:24]
Sha1Hex24(unique_input) ==
    CASE unique_input = <<"/docs/a.md", "1", 0, "5923d941fd7c">>
            -> "621639c82634ddc45d3a084c"
      [] unique_input = <<"/docs/a.md", "1", 0, "6948141f1922">>
            -> "0d6c44b811a64c56daa46c17"
      [] unique_input = <<"/docs/a.md", "1", 0, "c1757dcb6de6">>
            -> "d2cb6b219b1a537dbfdf3780"
      [] unique_input = <<"/docs/a.md", "1", 1, "5923d941fd7c">>
            -> "7861440c3b3e7eb6a865c07a"
      [] unique_input = <<"/docs/a.md", "1", 1, "6948141f1922">>
            -> "d7d41bf86b94e2f0fab41ebe"
      [] unique_input = <<"/docs/a.md", "1", 1, "c1757dcb6de6">>
            -> "586efdd6f31200a94303e234"
      [] unique_input = <<"/docs/a.md", "2", 0, "5923d941fd7c">>
            -> "908db9aa84e733e3f74efad7"
      [] unique_input = <<"/docs/a.md", "2", 0, "6948141f1922">>
            -> "7e594d84042286e134525694"
      [] unique_input = <<"/docs/a.md", "2", 0, "c1757dcb6de6">>
            -> "3f994e9259dcd63d6b24b939"
      [] unique_input = <<"/docs/a.md", "2", 1, "5923d941fd7c">>
            -> "248341e24fe98eaf2e45e360"
      [] unique_input = <<"/docs/a.md", "2", 1, "6948141f1922">>
            -> "d4c3d4805d85cd4e7309b3c9"
      [] unique_input = <<"/docs/a.md", "2", 1, "c1757dcb6de6">>
            -> "0724d08bc6bcc13d495a51c1"
      [] unique_input = <<"/docs/b.md", "1", 0, "5923d941fd7c">>
            -> "a09820673ce8c227efc649d5"
      [] unique_input = <<"/docs/b.md", "1", 0, "6948141f1922">>
            -> "2550c100cabc6287ec1df15a"
      [] unique_input = <<"/docs/b.md", "1", 0, "c1757dcb6de6">>
            -> "24e22c45a82ef72988a2fd13"
      [] unique_input = <<"/docs/b.md", "1", 1, "5923d941fd7c">>
            -> "875f3902f336a8395ad6440b"
      [] unique_input = <<"/docs/b.md", "1", 1, "6948141f1922">>
            -> "e654569cab5f52dbccfbab83"
      [] unique_input = <<"/docs/b.md", "1", 1, "c1757dcb6de6">>
            -> "1fd1cf8e6f2f7dbb1d0f0605"
      [] unique_input = <<"/docs/b.md", "2", 0, "5923d941fd7c">>
            -> "c8e17a8d8f6224671e9504b9"
      [] unique_input = <<"/docs/b.md", "2", 0, "6948141f1922">>
            -> "701c7dd3e438058c0fe471d2"
      [] unique_input = <<"/docs/b.md", "2", 0, "c1757dcb6de6">>
            -> "59b8e65370fbcc5d06b02cc8"
      [] unique_input = <<"/docs/b.md", "2", 1, "5923d941fd7c">>
            -> "787d711d63f64d345681b950"
      [] unique_input = <<"/docs/b.md", "2", 1, "6948141f1922">>
            -> "972f4d52bcbcd1c695e27719"
      [] unique_input = <<"/docs/b.md", "2", 1, "c1757dcb6de6">>
            -> "1aab317843bee66a4beea584"

generate_chunk_id(source_path, page_or_section, chunk_index, content) ==
    LET content_hash == Sha1Hex12(content)
        unique_input == UniqueInput(source_path, page_or_section, chunk_index,
                                    content_hash)
    IN Sha1Hex24(unique_input)

\* the argument tuples (source_path, page_or_section, chunk_index, content)
ChunkIdArgs == SourcePaths \X PageLabels \X ChunkIndexes \X Contents

InitChunkId ==
    /\ IdleRequest
    /\ collection = <<>>
    /\ bm25 = None
    /\ RcIdle
    /\ IxIdle
    /\ RtIdle
    /\ CkIdle
    /\ id_in \in {Some(<<a, b>>) : a \in ChunkIdArgs, b \in ChunkIdArgs}
    /\ id_out = None

\* generate_chunk_id called on each of the two tuples
GenerateIds ==
    /\ id_in # None
    /\ id_out = None
    /\ LET a == id_in[1][1]
           b == id_in[1][2]
       IN id_out' = Some(<<generate_chunk_id(a[1], a[2], a[3], a[4]),
                           generate_chunk_id(b[1], b[2], b[3], b[4])>>)
    /\ UNCHANGED id_in
    /\ UNCHANGED <<retriever_vars, request_vars, rc_vars, ix_vars, rt_vars,
                   ck_vars>>

NextChunkId == GenerateIds

SpecChunkId == InitChunkId /\ [][NextChunkId]_vars

\* ================================================================== claims
\* the answer the reconciler gave when called on its own and did not raise
RcReturned == rc_answer # None /\ ~rc_answer[1].raised

RcAnswer == rc_answer[1].answer[1]

\* C1: every answer the reconciler returns that has actions, or whose payload
\* carried a message that is non-empty once the stock apology is stripped,
\* has at least one citation or info_not_found = true.
C1_EvidenceOrUnresolved ==
    RcReturned =>
        ((RcAnswer.actions # <<>>
            \/ _strip_stock_apology(rc_parsed.customer_message) # <<>>)
         => (RcAnswer.citations # <<>> \/ RcAnswer.info_not_found))

\* C1 witness: a payload with a message but no action, no citation it could
\* bind and info_not_found = false is answered with info_not_found forced.
C1_Witness ==
    /\ RcReturned
    /\ rc_parsed.actions = <<>>
    /\ _strip_stock_apology(rc_parsed.customer_message) # <<>>
    /\ ~rc_parsed.info_not_found
    /\ RcAnswer.citations = <<>>
    /\ RcAnswer.info_not_found

ParsedIds == {ParsedId(i) : i \in 0..4}

\* does citation c carry the identity of passage p?
SamePassage(c, p) ==
    /\ c.chunk_id = p.chunk_id
    /\ c.doc_id = p.doc_id
    /\ c.page_or_section = p.page_or_section
    /\ c.score = p.score
    /\ c.trust_level = p.trust_level

\* C3: every citation of a reconciled answer has the chunk_id, doc_id,
\* location, score and trust level of one passage of the candidate set, or,
\* with an empty candidate set only, is a placeholder parsed_i of score 0 and
\* trust level trusted.
C3_CitationsResolve ==
    RcReturned =>
        \A k \in 1..Len(RcAnswer.citations) :
            LET c == RcAnswer.citations[k]
            IN \/ \E p \in Range(rc_passages) : SamePassage(c, p)
               \/ /\ rc_passages = <<>>
                  /\ c.chunk_id \in ParsedIds
                  /\ c.score = 0
                  /\ c.trust_level = "trusted"

\* C3 witness: the payload claims a document that no candidate passage
\* belongs to, and the citation is bound to a candidate all the same.
C3_Witness ==
    /\ RcReturned
    /\ rc_passages # <<>>
    /\ rc_parsed.citations = <<CitDX>>
    /\ Len(RcAnswer.citations) = 1
    /\ RcAnswer.citations[1].doc_id # "dX"

\* the answer process_chat returned
Returned == pc = "done" /\ outcome = "returned" /\ response # None

Answer == response[1].agent_response

\* C2: on every path of process_chat, a returned answer with actions has at
\* least one citation or info_not_found = true.
C2_ActionsAreBacked ==
    Returned =>
        (Answer.actions # <<>>
            => (Answer.citations # <<>> \/ Answer.info_not_found))

\* the two messages the repair retry appends after the raw output raw
RepairSuffix(raw) ==
    <<ChatMessage("assistant", "raw", None, <<>>, Some(raw)),
      ChatMessage("user", "corrective", None, <<>>, None)>>

\* C4: one request issues the generation call at most twice; the second call
\* is issued exactly when the first output fails to parse, with the first
\* message list extended by that output and the corrective instruction; no
\* call follows the second output.
C4_AtMostOneRepair ==
    /\ Len(call_log) <= 2
    /\ Len(outputs) <= Len(call_log)
    /\ (Len(call_log) = 2
          <=> (outputs # <<>> /\ _parse_json_response(outputs[1]) = None))
    /\ (Len(call_log) = 2
          => call_log[2] = call_log[1] \o RepairSuffix(outputs[1]))

\* C4 witness: the request ended after a second output that does not parse
\* either.
C4_Witness ==
    /\ pc = "done"
    /\ Len(call_log) = 2
    /\ Len(outputs) = 2
    /\ _parse_json_response(outputs[2]) = None

\* the low-severity fallback answer
IsLowFallback(a) ==
    /\ a.info_not_found
    /\ a.citations = <<>>
    /\ Len(a.risk_flags) = 1
    /\ a.risk_flags[1].flag_type = "technical_issue"
    /\ a.risk_flags[1].severity = "low"

BothOutputsUnparsed ==
    /\ pc = "done"
    /\ Len(outputs) = 2
    /\ _parse_json_response(outputs[1]) = None
    /\ _parse_json_response(outputs[2]) = None

\* C5: when the first output and the output of the repair retry both fail to
\* parse, process_chat returns, without raising, success = true and the
\* fallback answer: info_not_found, no citation, one technical_issue flag of
\* severity low.
C5_ParseFallback ==
    BothOutputsUnparsed =>
        /\ outcome = "returned"
        /\ response # None
        /\ response[1].success
        /\ IsLowFallback(Answer)

\* C5 witness: two unparseable outputs, the request has returned.
C5_Witness == BothOutputsUnparsed /\ outcome = "returned"

\* the last output parsed, and the reconciler raised on the value
ReconciliationRaised ==
    /\ pc = "done"
    /\ outputs # <<>>
    /\ LET parsed == _parse_json_response(outputs[Len(outputs)])
       IN parsed # None /\ ReconcileRaises(parsed[1])

\* C6: an output that parses but makes reconciliation raise does not make
\* process_chat raise: the caller gets a response whose answer is the
\* low-severity fallback answer.
C6_ReconcileErrorsCaught ==
    ReconciliationRaised =>
        /\ outcome = "returned"
        /\ response # None
        /\ IsLowFallback(Answer)

\* C6 witness: the output decoded to a JSON array and the request returned.
C6_Witness ==
    /\ ReconciliationRaised
    /\ _parse_json_response(outputs[Len(outputs)])[1].kind = "array"
    /\ outcome = "returned"

\* C7: whenever the retriever or the generation call fails, process_chat
\* returns success = false with the fallback answer and raises nothing.
C7_FailuresBecomeResponses ==
    (pc = "done" /\ failed # {}) =>
        /\ outcome = "returned"
        /\ response # None
        /\ ~response[1].success
        /\ IsLowFallback(Answer)

RECURSIVE SumSeq(_)
SumSeq(s) == IF s = <<>> THEN 0 ELSE Head(s) + SumSeq(Tail(s))

\* C8: a generation call makes at most 3 transport attempts and ends at its
\* first success; a call whose 3 attempts failed ends the request with
\* success = false and no further call; one request makes at most 6
\* attempts.
C8_TransportBudget ==
    /\ Len(attempts) <= 2
    /\ \A i \in 1..Len(attempts) : attempts[i] <= MaxTransportAttempts
    /\ SumSeq(attempts) <= 6
    /\ pc = "generate" =>
          /\ Len(outputs) = Len(attempts) - 1
          /\ attempts[Len(attempts)] < MaxTransportAttempts
    /\ (pc = "done" /\ attempts # <<>>) =>
          IF "generation" \in failed
          THEN /\ attempts[Len(attempts)] = MaxTransportAttempts
               /\ Len(outputs) = Len(attempts) - 1
               /\ Len(call_log) = Len(attempts)
               /\ outcome = "returned"
               /\ ~response[1].success
          ELSE Len(outputs) = Len(attempts)

\* C8 witness: six transport attempts, the last call gave up.
C8_Witness ==
    /\ pc = "done"
    /\ attempts = <<3, 3>>
    /\ failed = {"generation"}

\* the clarification answer
IsClarification(a) ==
    /\ a.info_not_found
    /\ a.actions = <<>>
    /\ a.citations = <<>>
    /\ a.missing_info_questions # <<>>

NoStrongPassage ==
    /\ pc = "done"
    /\ passages # None
    /\ \A p \in Range(passages[1]) : p.score < MIN_PASSAGE_SCORE

\* C9 as stated, where the retriever returned passages: whenever no
\* retrieved passage reaches the minimum score, generation is never called
\* and the clarification answer is returned with success = true.
C9_AsStated ==
    (NoStrongPassage /\ passages[1] # <<>>) =>
        /\ call_log = <<>>
        /\ outcome = "returned"
        /\ response # None
        /\ response[1].success
        /\ IsClarification(Answer)

\* C9 amended: for a request whose sanitized message passes the
\* sensitive-data guard, if no retrieved passage reaches the minimum score,
\* generation is never called and the clarification answer is returned with
\* success = true.
C9_WeakRetrievalClarifies ==
    (NoStrongPassage /\ ~_contains_sensitive_data(sanitized_message[1])) =>
        /\ call_log = <<>>
        /\ outcome = "returned"
        /\ response # None
        /\ response[1].success
        /\ IsClarification(Answer)

\* C9 witness: passages were retrieved, all of them weak, on the main path.
C9_Witness ==
    /\ NoStrongPassage
    /\ passages[1] # <<>>
    /\ ~_contains_sensitive_data(sanitized_message[1])
    /\ outcome = "returned"

\* the safe-refusal answer
IsRefusal(a) ==
    \E k \in 1..Len(a.risk_flags) :
        a.risk_flags[k].flag_type = "sensitive_data_shared"

\* C10: when the sensitive-data check of the validators matches the message
\* of a fraud-confirmed request, generation is never called and the answer
\* returned is the safe refusal.
C10_SensitiveShortCircuits ==
    (/\ request # None
     /\ request[1].fraud_confirmed
     /\ check_for_sensitive_data_request(request[1].user_message)) =>
        /\ call_log = <<>>
        /\ Returned => IsRefusal(Answer)


\* C11: in every execution of process_chat the steps occur in the order
\* sanitization, retrieval, generation, reconciliation: a retrieval has a
\* sanitized message behind it, a generation call has a returned retrieval
\* behind it, reconciliation has a parsed generation output behind it, and the
\* message inside the retrieval query and inside every generation prompt is
\* the sanitized message, never the raw one.
Sanitized == CollapseWhitespace(request[1].user_message)

C11_StepOrder ==
    /\ (pc \in {"refusal_retrieve", "retrieve", "generate"}
            \/ retrieval_query # None \/ passages # None)
          => sanitized_message = Some(Sanitized)
    /\ passages # None => retrieval_query # None
    /\ retrieval_query # None =>
          /\ retrieval_query[1].user_message \in {None, Some(Sanitized)}
          /\ request[1].user_message # Sanitized =>
                retrieval_query[1].user_message # Some(request[1].user_message)
    /\ (pc = "generate" \/ call_log # <<>>) => passages # None
    /\ \A k \in 1..Len(call_log) : \A j \in 1..Len(call_log[k]) :
          call_log[k][j].text \in {None, Some(Sanitized)}
    /\ Len(outputs) <= Len(call_log)
    /\ path = "reconciled" =>
          /\ outputs # <<>>
          /\ _parse_json_response(outputs[Len(outputs)]) # None

\* a reconciled answer for a message whose raw form differs from the
\* sanitized one
C11_Witness ==
    /\ path = "reconciled"
    /\ request[1].user_message.wide
    /\ retrieval_query = Some(build_query_for_retrieval(Sanitized))
    /\ call_log[1][2].text = Some(Sanitized)
\* C14 as stated: serving a chat request leaves the vector collection, the
\* lexical index and the lexical corpus exactly as they were.
C14_AsStated == [][UNCHANGED <<collection, bm25>>]_vars

\* C14: serving a chat request never changes the vector collection, and
\* changes the lexical index and corpus in one case only: they were missing,
\* the collection holds chunks, and they become the index built over exactly
\* the chunks of the collection.
C14_OnlyLazyBuild ==
    [][/\ collection' = collection
       /\ bm25' # bm25 =>
             /\ bm25 = None
             /\ collection # <<>>
             /\ bm25' = Some(collection)]_vars

\* a request was served by a retrieve that built the lexical index
C14_Witness ==
    /\ passages # None
    /\ bm25 = Some(collection)
    /\ collection # <<>>
\* index_documents stands between the deletion of the old collection and the
\* return that follows the rebuild of the lexical index
InsideIndexDocuments == ix_pc \in {"deleted", "embedded", "added"}

C13_SameGeneration ==
    /\ (ch_obs # None /\ ch_obs[1].status = 200) =>
          ch_obs[1].semantic = ch_obs[1].lexical
    /\ (ix_pc = "done" /\ ix_raised # None) =>
          /\ collection = ix_prev[1].collection
          /\ bm25 = ix_prev[1].bm25

\* two chunks of the batch share a chunk_id
HasCollision(chunks) ==
    \E i, j \in 1..Len(chunks) :
        i # j /\ chunks[i].chunk_id = chunks[j].chunk_id

RECURSIVE OkChunks(_)
\* the chunks of the files that process_document handled, in file order
OkChunks(files) ==
    IF files = <<>> THEN <<>>
    ELSE (IF Head(files).chunks = None THEN <<>> ELSE Head(files).chunks[1])
         \o OkChunks(Tail(files))

RECURSIVE FailedNames(_)
\* the names of the files on which process_document raised, in file order
FailedNames(files) ==
    IF files = <<>> THEN <<>>
    ELSE (IF Head(files).chunks = None THEN <<Head(files).name>> ELSE <<>>)
         \o FailedNames(Tail(files))

\* the files of the directory that the loop has gone past
Processed == SubSeq(ix_docs, 1, Len(ix_docs) - Len(ix_files))

\* C16: a file whose extraction or chunking raises does not abort the batch:
\* the files are gone through in sorted order to the last one, the chunk
\* list is exactly the chunks of the files that succeeded, and one error is
\* recorded per failed file.
C16_BatchNotAborted ==
    /\ Len(ix_files) <= Len(ix_docs)
    /\ ix_files = SubSeq(ix_docs, Len(ix_docs) - Len(ix_files) + 1, Len(ix_docs))
    /\ all_chunks = OkChunks(Processed)
    /\ ix_errors = FailedNames(Processed)
    /\ ix_pc \in {"deleted", "embedded", "added", "done"} =>
          /\ all_chunks = OkChunks(ix_docs)
          /\ ix_errors = FailedNames(ix_docs)

\* the first file raised and a later one was still ingested
C16_Witness ==
    /\ ix_pc = "deleted"
    /\ ix_docs[1].chunks = None
    /\ ix_docs[2].chunks # None
    /\ all_chunks = ix_docs[2].chunks[1]
    /\ ix_errors = <<ix_docs[1].name>>
\* what retrieve, called on its own, searched and returned
RtOut == rt_out[1]

\* the results of one search that carry this chunk_id
WithId(results, id) == {q \in Range(results) : q.chunk_id = id}

\* the largest lexical score of the current result set
MaxLexical ==
    CHOOSE m \in {q.score : q \in Range(RtOut.bm25_results)} :
        \A q \in Range(RtOut.bm25_results) : q.score <= m

\* semantic_weight * semantic_score of the chunk, 0 when the semantic result
\* set does not hold it
WeightedSemantic(id) ==
    LET sem == WithId(RtOut.semantic_results, id)
    IN IF sem = {} THEN 0
       ELSE ((CHOOSE q \in sem : TRUE).score * SemanticWeight) \div 1000

\* (1 - semantic_weight) * lexical_score / max lexical score of the chunk,
\* 0 when the lexical result set does not hold it
WeightedLexical(id) ==
    LET lex == WithId(RtOut.bm25_results, id)
    IN IF lex = {} THEN 0
       ELSE LET normalized ==
                   IF MaxLexical > 0
                   THEN ((CHOOSE q \in lex : TRUE).score * 1000) \div MaxLexical
                   ELSE 0
            IN (normalized * (1000 - SemanticWeight)) \div 1000

\* C17: the final score of every returned passage is the weighted semantic
\* score if its chunk_id is in the semantic result set only, the weighted
\* normalised lexical score if it is in the lexical result set only, and the
\* sum of the two if it is in both.
C17_FusionFormula ==
    rt_out # None =>
        \A k \in 1..Len(RtOut.returned) :
            LET p == RtOut.returned[k]
            IN /\ WithId(RtOut.semantic_results, p.chunk_id)
                    \cup WithId(RtOut.bm25_results, p.chunk_id) # {}
               /\ p.score = WeightedSemantic(p.chunk_id)
                              + WeightedLexical(p.chunk_id)

\* one returned passage is in both result sets, one in the semantic set only
\* and one in the lexical set only
C17_Witness ==
    /\ rt_out # None
    /\ \E p, q, r \in Range(RtOut.returned) :
          /\ WithId(RtOut.semantic_results, p.chunk_id) # {}
          /\ WithId(RtOut.bm25_results, p.chunk_id) # {}
          /\ WeightedSemantic(p.chunk_id) > 0
          /\ WeightedLexical(p.chunk_id) > 0
          /\ WithId(RtOut.semantic_results, q.chunk_id) # {}
          /\ WithId(RtOut.bm25_results, q.chunk_id) = {}
          /\ WithId(RtOut.semantic_results, r.chunk_id) = {}
          /\ WithId(RtOut.bm25_results, r.chunk_id) # {}

\* the chunk ids of both result sets
UnionIds ==
    {q.chunk_id : q \in Range(RtOut.semantic_results)}
        \cup {q.chunk_id : q \in Range(RtOut.bm25_results)}

\* C18: the list returned by retrieve holds exactly one passage for each
\* chunk_id of the union of the two result sets, none dropped by the trust
\* scan, in non-increasing order of final score, every passage tagged hybrid
\* with a trust level of trusted or untrusted.
C18_MergedList ==
    rt_out # None =>
        /\ {p.chunk_id : p \in Range(RtOut.returned)} = UnionIds
        /\ Len(RtOut.returned) = Cardinality(UnionIds)
        /\ \A k \in 1..(Len(RtOut.returned) - 1) :
              RtOut.returned[k].score >= RtOut.returned[k + 1].score
        /\ \A k \in 1..Len(RtOut.returned) :
              /\ RtOut.returned[k].retrieval_method = "hybrid"
              /\ RtOut.returned[k].trust_level \in TrustLevels

\* three passages returned, one of them classified untrusted, one of them
\* found by both searches
C18_Witness ==
    /\ rt_out # None
    /\ Len(RtOut.returned) = 3
    /\ \E p \in Range(RtOut.returned) : p.trust_level = "untrusted"
    /\ \E p \in Range(RtOut.returned) :
          /\ WithId(RtOut.semantic_results, p.chunk_id) # {}
          /\ WithId(RtOut.bm25_results, p.chunk_id) # {}

\* C19: fusion is monotone: a chunk in both result sets has a final score at
\* least its weighted semantic score and at least its weighted normalised
\* lexical score, for every similarity 1 - distance the vector index yields.
C19_FusionMonotone ==
    rt_out # None =>
        \A k \in 1..Len(RtOut.returned) :
            LET p == RtOut.returned[k]
            IN (/\ WithId(RtOut.semantic_results, p.chunk_id) # {}
                /\ WithId(RtOut.bm25_results, p.chunk_id) # {}) =>
                    /\ p.score >= WeightedSemantic(p.chunk_id)
                    /\ p.score >= WeightedLexical(p.chunk_id)

\* position of the chunk of a lexical result in the lexical corpus
CorpusIndex(p) ==
    CHOOSE n \in 1..Len(RtOut.lexical_corpus[1]) :
        RtOut.lexical_corpus[1][n].chunk_id = p.chunk_id

\* C20: _search_bm25 returns at most top_k passages, all with score > 0, in
\* non-increasing score order, passages of equal score in their corpus
\* order; with no index or no positive score it returns an empty list.
C20_LexicalRanking ==
    rt_out # None =>
        LET results == RtOut.bm25_results
        IN /\ Len(results) <= rt_in[1].top_k.bm25
           /\ \A k \in 1..Len(results) : results[k].score > 0
           /\ \A k \in 1..(Len(results) - 1) :
                 /\ results[k].score >= results[k + 1].score
                 /\ results[k].score = results[k + 1].score =>
                       CorpusIndex(results[k]) < CorpusIndex(results[k + 1])
           /\ (\/ RtOut.lexical_corpus = None
               \/ \A n \in DOMAIN rt_in[1].scores : rt_in[1].scores[n] <= 0)
                 => results = <<>>

\* the claimed citations of the payload that the binding loop binds
ClaimedDicts ==
    SelectSeqBy(rc_parsed.citations,
                {c \in Range(rc_parsed.citations) : c.kind = "dict"})

\* the passages a claimed doc_id restricts the match to
ClaimedCandidates(ps, doc_id) ==
    LET same == SelectSeqBy(ps, {p \in Range(ps) : p.doc_id = doc_id})
    IN IF doc_id # "" /\ same # <<>> THEN same ELSE ps

\* the composite score of passage p against the claimed citation c
ClaimScore(p, c) == MatchScore(p, Strip(c.page_or_section), c.excerpt)

\* the passage the claimed citation c is bound to
BoundTo(c) ==
    _best_passage_match(rc_passages, Strip(c.doc_id),
                        Strip(c.page_or_section), c.excerpt)[1]

\* evidence was attached by the reconciler, not bound from the payload
AutoAttached ==
    /\ RcReturned
    /\ rc_parsed.actions # <<>>
    /\ ClaimedDicts = <<>>
    /\ rc_passages # <<>>

\* C21: untrusted passages have lower citation priority than trusted
\* equivalents: a claimed citation is never bound to an untrusted passage
\* when a trusted candidate has the same composite score, and auto-attached
\* evidence never puts an untrusted passage before a trusted one of equal
\* score.
C21_TrustedFirst ==
    (RcReturned /\ rc_passages # <<>>) =>
        /\ \A k \in 1..Len(ClaimedDicts) :
              LET c == ClaimedDicts[k]
                  m == BoundTo(c)
              IN m.trust_level = "untrusted" =>
                    \A q \in Range(ClaimedCandidates(rc_passages,
                                                     Strip(c.doc_id))) :
                        q.trust_level = "trusted"
                            => ClaimScore(q, c) # ClaimScore(m, c)
        /\ AutoAttached =>
              \A i, j \in 1..Len(RcAnswer.citations) :
                  (i < j /\ RcAnswer.citations[i].score
                              = RcAnswer.citations[j].score)
                      => ~(/\ RcAnswer.citations[i].trust_level = "untrusted"
                           /\ RcAnswer.citations[j].trust_level = "trusted")

\* the passages of ps at or above the minimum relevance threshold, in order
QualifyingOf(ps) ==
    SelectSeqBy(ps, {p \in Range(ps) : p.score >= MIN_PASSAGE_SCORE})

\* C22: when the payload has actions and the binding loop bound nothing, the
\* answer's citations are exactly the first one or two candidate passages at
\* or above the threshold, in candidate order; when no candidate qualifies
\* the answer has no citation and info_not_found = true.
C22_AutoAttach ==
    (RcReturned /\ rc_parsed.actions # <<>> /\ ClaimedDicts = <<>>) =>
        LET q == QualifyingOf(rc_passages)
            cits == RcAnswer.citations
        IN IF q # <<>>
           THEN /\ Len(cits) = Min(Len(q), 2)
                /\ \A k \in 1..Len(cits) : SamePassage(cits[k], q[k])
           ELSE cits = <<>> /\ RcAnswer.info_not_found

\* C22 witness: three candidates qualify, the second of them behind a weak
\* one or not, and exactly the first two are attached.
C22_Witness ==
    /\ RcReturned
    /\ rc_parsed.actions # <<>>
    /\ ClaimedDicts = <<>>
    /\ ~rc_parsed.info_not_found
    /\ Len(QualifyingOf(rc_passages)) = 3
    /\ Len(RcAnswer.citations) = 2
    /\ SamePassage(RcAnswer.citations[2], QualifyingOf(rc_passages)[2])

\* the position of the first passage of cands with the chunk_id of p, 0 if none
PositionIn(cands, p) ==
    IF \E k \in 1..Len(cands) : cands[k].chunk_id = p.chunk_id
    THEN CHOOSE k \in 1..Len(cands) :
            /\ cands[k].chunk_id = p.chunk_id
            /\ \A j \in 1..(k - 1) : cands[j].chunk_id # p.chunk_id
    ELSE 0

\* C27: over a non-empty candidate set, every claimed citation is matched
\* with the first passage, in candidate order, of maximal composite score
\* among the passages of the claimed doc_id when one was claimed and some
\* passage has it, and among all passages otherwise; the first citation of
\* the answer is that passage for the first claimed citation.
C27_FirstBestMatch ==
    (RcReturned /\ rc_passages # <<>>) =>
        LET dicts == ClaimedDicts
        IN /\ \A k \in 1..Len(dicts) :
                 LET c == dicts[k]
                     cands == ClaimedCandidates(rc_passages, Strip(c.doc_id))
                     m == BoundTo(c)
                     at == PositionIn(cands, m)
                     best == ClaimScore(m, c)
                 IN /\ at > 0
                    /\ cands[at] = m
                    /\ \A j \in 1..Len(cands) :
                          ClaimScore(cands[j], c) <= best
                    /\ \A j \in 1..(at - 1) :
                          ClaimScore(cands[j], c) < best
           /\ dicts # <<>> =>
                 /\ RcAnswer.citations # <<>>
                 /\ SamePassage(RcAnswer.citations[1], BoundTo(dicts[1]))

\* C27 witness: no passage has the claimed doc_id, two passages of the full
\* candidate set tie on the maximal composite score, and the earlier one is
\* cited.
C27_Witness ==
    /\ RcReturned
    /\ Len(rc_passages) >= 2
    /\ ClaimedDicts # <<>>
    /\ LET c == ClaimedDicts[1]
       IN /\ Strip(c.doc_id) # ""
          /\ \A p \in Range(rc_passages) : p.doc_id # Strip(c.doc_id)
          /\ \E i, j \in 1..Len(rc_passages) :
                /\ i < j
                /\ ClaimScore(rc_passages[i], c) = ClaimScore(rc_passages[j], c)
                /\ \A n \in 1..Len(rc_passages) :
                      ClaimScore(rc_passages[n], c)
                          <= ClaimScore(rc_passages[i], c)
                /\ \A n \in 1..(i - 1) :
                      ClaimScore(rc_passages[n], c)
                          < ClaimScore(rc_passages[i], c)
                /\ RcAnswer.citations[1].chunk_id = rc_passages[i].chunk_id

\* the citations of the binding loop, before deduplication
RawCitations == BindAll(rc_parsed.citations, 0, rc_passages)

\* the positions of raw that hold the first occurrence of their key
FirstsOf(raw) ==
    {k \in 1..Len(raw) :
        \A j \in 1..(k - 1) : CitationKey(raw[j]) # CitationKey(raw[k])}

\* d is raw restricted to the first occurrence of each key, in raw's order
IsFirstOccurrences(raw, d) ==
    /\ Len(d) = Cardinality(FirstsOf(raw))
    /\ \A n \in 1..Len(d) :
          \E k \in FirstsOf(raw) :
              /\ d[n] = raw[k]
              /\ Cardinality({j \in FirstsOf(raw) : j < k}) = n - 1

\* C28: the citations of every reconciled answer are pairwise distinct on
\* (chunk_id, doc_id, location); deduplication keeps the first occurrence of
\* each key in the original order, and applying it twice gives what applying
\* it once gives.
C28_DedupCitations ==
    RcReturned =>
        LET raw == RawCitations
            once == _dedup_citations(raw)
            cits == RcAnswer.citations
        IN /\ \A i, j \in 1..Len(cits) :
                 i # j => CitationKey(cits[i]) # CitationKey(cits[j])
           /\ IsFirstOccurrences(raw, once)
           /\ _dedup_citations(once) = once
           /\ raw # <<>> => cits = once
           /\ _dedup_citations(cits) = cits

\* C28 witness: two claimed citations are bound to the same passage with
\* different excerpts, and the answer keeps the first of them only.
C28_Witness ==
    /\ RcReturned
    /\ Len(RawCitations) = 2
    /\ CitationKey(RawCitations[1]) = CitationKey(RawCitations[2])
    /\ RawCitations[1].excerpt # RawCitations[2].excerpt
    /\ RcAnswer.citations = <<RawCitations[1]>>

\* no stage of _parse_json_response decodes anything of the raw output
EveryStageFails(raw) ==
    /\ raw.strict = None
    /\ \A k \in 1..Len(raw.fenced) : raw.fenced[k] = None
    /\ \A k \in 1..Len(raw.brace) : raw.brace[k] = None

\* the decoded text of the first stage that succeeds
FirstSuccess(raw) ==
    IF raw.strict # None THEN raw.strict
    ELSE IF \E k \in 1..Len(raw.fenced) : raw.fenced[k] # None
    THEN raw.fenced[CHOOSE k \in 1..Len(raw.fenced) :
                        /\ raw.fenced[k] # None
                        /\ \A j \in 1..(k - 1) : raw.fenced[j] = None]
    ELSE raw.brace[CHOOSE k \in 1..Len(raw.brace) :
                        /\ raw.brace[k] # None
                        /\ \A j \in 1..(k - 1) : raw.brace[j] = None]

\* C26: for every raw output process_chat parses, _parse_json_response
\* returns None if and only if every stage fails (strict parse, fenced
\* blocks, brace substring), and otherwise the value decoded by the first
\* stage that succeeds.
C26_ParseStages ==
    \A k \in 1..Len(outputs) :
        LET raw == outputs[k]
            r == _parse_json_response(raw)
        IN /\ (r = None) <=> EveryStageFails(raw)
           /\ ~EveryStageFails(raw) => r = FirstSuccess(raw)

\* C29: every passage retrieve hands on whose sanitized content matches an
\* injection pattern is tagged untrusted, also when the match appears only
\* once the control characters have been removed from the raw content.
C29_TrustMatchesContent ==
    rt_out # None =>
        \A k \in 1..Len(RtOut.returned) :
            check_for_injection_suspicious(RtOut.returned[k].content)
                => RtOut.returned[k].trust_level = "untrusted"

\* C23: every chunk process_document makes of a document has a length from
\* the minimum length (20 characters) to the configured chunk size
\* inclusive, and no value split_into_chunks yields for it is longer than
\* the chunk size.
C23_ChunkLengths ==
    (ck_in # None /\ ck_in[1].caller = "process_document") =>
        /\ \A k \in 1..Len(ck_kept) :
              /\ Len(ck_kept[k]) >= 20
              /\ Len(ck_kept[k]) <= ck_in[1].settings[1]
        /\ \A k \in 1..Len(ck_yielded) :
              Len(ck_yielded[k].content) <= ck_in[1].settings[1]

\* C23 witness: a section longer than the chunk size was split, one of the
\* yielded values was dropped as too short and another one was kept.
C23_Witness ==
    /\ ck_in # None
    /\ ck_in[1].caller = "process_document"
    /\ ck_pc = "done"
    /\ Len(ck_text) > ck_in[1].settings[1]
    /\ Len(ck_yielded) >= 2
    /\ ck_kept # <<>>
    /\ Len(ck_kept) < Len(ck_yielded)

\* the call runs with an overlap that is positive and below the chunk size
OverlapBelowSize ==
    /\ ck_in # None
    /\ 0 < ck_in[1].chunk_overlap
    /\ ck_in[1].chunk_overlap < ck_in[1].chunk_size

\* the characters of the text a yielded value was sliced from, as
\* text[start_char:end_char] takes them
RegionLo(y) == PyIndex(y.start_char, Len(ck_text))

RegionHi(y) == PyIndex(y.end_char, Len(ck_text))

\* C24: for a text longer than the chunk size, every two consecutive values
\* split_into_chunks yields overlap: the later one starts exactly
\* chunk_overlap characters before the end offset of the earlier one, the
\* two share a non-empty region of the text, and no character lies
\* uncovered between them.
C24_ConsecutiveOverlap ==
    OverlapBelowSize =>
        \A k \in 1..(Len(ck_yielded) - 1) :
            LET a == ck_yielded[k]
                b == ck_yielded[k + 1]
            IN /\ b.start_char = a.end_char - ck_in[1].chunk_overlap
               /\ Max(RegionLo(a), RegionLo(b)) < Min(RegionHi(a), RegionHi(b))
               /\ RegionLo(b) <= RegionHi(a)

\* C30: under 0 <= chunk_overlap < chunk_size the start offset of
\* split_into_chunks is never negative and strictly increases from one
\* iteration to the next, whatever cut point is chosen.
C30_StartIncreases ==
    (ck_in # None /\ ck_in[1].chunk_overlap < ck_in[1].chunk_size) =>
        /\ ck_start >= 0
        /\ \A k \in 1..(Len(ck_yielded) - 1) :
              ck_yielded[k + 1].start_char > ck_yielded[k].start_char
        /\ (ck_pc = "loop" /\ ck_yielded # <<>>)
              => ck_start > ck_yielded[Len(ck_yielded)].start_char

\* the components in which two argument tuples differ
DifferingComponents(a, b) == {n \in 1..4 : a[n] # b[n]}

\* C25: generate_chunk_id gives equal ids for equal argument tuples, and
\* different ids for two tuples that differ in exactly one of source_path,
\* location, index and content.
C25_ChunkIdsDistinguish ==
    id_out # None =>
        LET a == id_in[1][1]
            b == id_in[1][2]
        IN /\ a = b => id_out[1][1] = id_out[1][2]
           /\ Cardinality(DifferingComponents(a, b)) = 1
                 => id_out[1][1] # id_out[1][2]
====
